---- MODULE Spec2Model ----
(***************************************************************************)
(* A model of jira-autopilot's work-session engine                         *)
(* (plugins/jira-autopilot/hooks-handlers/jira_core.py).                   *)
(*                                                                         *)
(* The persisted session file is the variable `session` (`hasSession`      *)
(* tells whether load_session returns a non-empty document).  Every        *)
(* command is one action: it loads the session, runs the handler and saves.*)
(* Times are epoch seconds.  A text (prompt, commit message, summary) is a *)
(* sequence of lower-case words; a file path is a sequence of segments.    *)
(***************************************************************************)
EXTENDS Integers, Sequences, FiniteSets, TLC

VARIABLES
    session,     \* content of .claude/jira-session.json
    hasSession,  \* FALSE while the file is absent (load_session returns {})
    cfg,         \* content of .claude/jira-autopilot.json plus credentials
    now,         \* int(time.time())
    ticks,       \* number of clock advances so far (bounds the run)
    tracker,     \* the external tracker: issues created, worklog requests received
    nextUid,     \* verification tags handed to chunks and pending worklogs
    archive,     \* .claude/jira-sessions/: file name (session id) -> content
    disk,        \* the files followed write by write: name -> content
    procs,       \* the invocations under way: where each one is, what it holds
    saves,       \* the documents the session file has held, in order
    host         \* what the host saw of the last invocation it ran

vars == <<session, hasSession, cfg, now, ticks, tracker, nextUid, archive,
          disk, procs, saves, host>>

\* ---------------------------------------------------------------- bounds
MaxTicks == 2
MaxChunks == 2
MaxUid == 3
MaxCreated == 1
\* write calls json.dump makes for one document
Pieces == 2
\* invocations that can be under way at once
NumProcs == 2

\* ------------------------------------------------------------- constants
MAX_WORKLOG_SECONDS == 14400
STALE_ISSUE_SECONDS == 86400
DefaultIdleThreshold == 15
DefaultTimeRounding == 15
DefaultWorklogInterval == 15
DefaultAccuracy == 5
T0 == 1000
\* what _round_seconds yields when its division by zero raises
ZeroDivisionError == -1

Null == "null"

\* clock advances offered to the environment, in seconds
TickSteps == {600}

\* keys the tracker hands out on create, in order
TrackerKeys == <<"P-1", "P-2", "P-3">>
\* the key the tracker returns to its (n+1)-th successful create request
NextKey(n) == IF n < Len(TrackerKeys) THEN TrackerKeys[n + 1] ELSE Null

\* keys a branch name can carry
BranchKeys == {"B-7"}

\* ----------------------------------------------------------- small helpers
Max(a, b) == IF a >= b THEN a ELSE b
Min(a, b) == IF a <= b THEN a ELSE b

Range(s) == {s[i] : i \in 1..Len(s)}

RECURSIVE SumSeq(_)
SumSeq(s) == IF s = <<>> THEN 0 ELSE Head(s) + SumSeq(Tail(s))

RECURSIVE SetToSeq(_)
SetToSeq(S) == IF S = {} THEN <<>>
               ELSE LET x == CHOOSE y \in S : TRUE
                    IN <<x>> \o SetToSeq(S \ {x})

\* ------------------------------------------------------------ vocabulary
BUG_SIGNALS == {"fix", "bug", "broken", "crash", "error", "fail",
                "regression", "not working", "issue with"}
TASK_SIGNALS == {"add", "create", "implement", "build", "setup",
                 "configure", "refactor", "update", "migrate"}
NoiseWords == {"please", "can you", "could you", "i need to",
               "i need you to", "i want to", "help me", "let's", "let me"}

\* prompts the user can type
Prompts == { <<"please">>, <<"fix", "login">> }

\* the latest commit message (<<>> when git reports none)
CommitMsgs == { <<>>, <<"fix", "login">> }

\* ------------------------------------------------------------- autonomy
NumericLevels == [d \in {"1", "2", "3", "4", "5", "6", "7", "8", "9", "10"} |->
                    CASE d = "1" -> 1 [] d = "2" -> 2 [] d = "3" -> 3
                      [] d = "4" -> 4 [] d = "5" -> 5 [] d = "6" -> 6
                      [] d = "7" -> 7 [] d = "8" -> 8 [] d = "9" -> 9
                      [] d = "10" -> 10]

Upper(raw) == CASE raw = "a" -> "A" [] raw = "b" -> "B" [] raw = "c" -> "C"
                [] OTHER -> raw

\* _resolve_autonomy: letter A/B/C from the raw session/config value
ResolveAutonomyRaw(raw) ==
    IF raw \in DOMAIN NumericLevels
    THEN (IF NumericLevels[raw] = 10 THEN "A"
          ELSE IF NumericLevels[raw] >= 6 THEN "B"
          ELSE "C")
    ELSE IF Upper(raw) \in {"A", "B", "C"} THEN Upper(raw) ELSE "C"

_resolve_autonomy(s, c) ==
    ResolveAutonomyRaw(IF s.autonomyLevel # "" THEN s.autonomyLevel
                       ELSE c.autonomyLevel)

\* --------------------------------------------------------------- texts
RECURSIVE StripNoise(_)
StripNoise(t) == IF t = <<>> THEN <<>>
                 ELSE IF Head(t) \in NoiseWords THEN StripNoise(Tail(t))
                 ELSE t

\* extract_summary_from_prompt: the empty text stands for ""
extract_summary_from_prompt(prompt) == StripNoise(prompt)

Tokens(t) == Range(t)

\* a classifier that would count a Task without Task signals as one signal
ClassifyTaskFloor(summary) ==
    LET bug_score == Cardinality(BUG_SIGNALS \cap Tokens(summary))
        task_score == Cardinality(TASK_SIGNALS \cap Tokens(summary))
    IN  IF bug_score >= 2 \/ (bug_score > task_score /\ bug_score >= 1)
        THEN [type |-> "Bug",
              confidence |-> Min(50 + bug_score * 15, 95),
              signals |-> BUG_SIGNALS \cap Tokens(summary)]
        ELSE [type |-> "Task",
              confidence |-> Min(50 + Max(task_score, 1) * 15, 95),
              signals |-> TASK_SIGNALS \cap Tokens(summary)]

\* classify_issue without context; confidence in hundredths
classify_issue(summary) ==
    LET bug_score == Cardinality(BUG_SIGNALS \cap Tokens(summary))
        task_score == Cardinality(TASK_SIGNALS \cap Tokens(summary))
    IN  IF bug_score >= 2 \/ (bug_score > task_score /\ bug_score >= 1)
        THEN [type |-> "Bug",
              confidence |-> Min(50 + bug_score * 15, 95),
              signals |-> BUG_SIGNALS \cap Tokens(summary)]
        ELSE [type |-> "Task",
              confidence |-> Min(50 + task_score * 15, 95),
              signals |-> TASK_SIGNALS \cap Tokens(summary)]

\* ------------------------------------------------------ active issues
\* activeIssues is an insertion-ordered dict: a sequence of entries
\* [key, startTime, totalSeconds, paused, summary] with distinct keys.
ActiveKeys(s) == {s.activeIssues[i].key : i \in 1..Len(s.activeIssues)}

IssueOf(s, k) == s.activeIssues[CHOOSE i \in 1..Len(s.activeIssues) :
                                   s.activeIssues[i].key = k]

NewIssue(k, t, summary) ==
    [key |-> k, startTime |-> t, totalSeconds |-> 0, paused |-> FALSE,
     summary |-> summary]

\* session["activeIssues"][k] = entry
SetIssue(issues, entry) ==
    IF \E i \in 1..Len(issues) : issues[i].key = entry.key
    THEN [i \in 1..Len(issues) |->
             IF issues[i].key = entry.key THEN entry ELSE issues[i]]
    ELSE Append(issues, entry)

\* ------------------------------------------------------------- chunks
\* end - start - sum(idleGaps.seconds), before clamping
ChunkTime(c) ==
    c.endTime - c.startTime
        - SumSeq([i \in 1..Len(c.idleGaps) |-> c.idleGaps[i].seconds])

ChunkSeconds(c) == Max(ChunkTime(c), 0)

NullChunks(s) == SelectSeq(s.workChunks, LAMBDA c : c.issueKey = Null)

\* a claim that would reassign every chunk, keyed or not
ClaimEveryChunk(s, issue_key) ==
    [session |-> [s EXCEPT !.workChunks =
                     [i \in 1..Len(s.workChunks) |->
                         [s.workChunks[i] EXCEPT !.issueKey = issue_key]]],
     claimed |-> Len(s.workChunks)]

\* a claim that would add the chunks' time without clamping it at zero
ClaimUnclamped(s, issue_key) ==
    LET claimed == Len(NullChunks(s))
        total == SumSeq([i \in 1..Len(NullChunks(s)) |-> ChunkTime(NullChunks(s)[i])])
    IN  [session |->
            [s EXCEPT
               !.workChunks = [i \in 1..Len(s.workChunks) |->
                                 IF s.workChunks[i].issueKey # Null THEN s.workChunks[i]
                                 ELSE [s.workChunks[i] EXCEPT !.issueKey = issue_key]],
               !.activeIssues = [i \in 1..Len(s.activeIssues) |->
                                   IF s.activeIssues[i].key = issue_key
                                   THEN [s.activeIssues[i] EXCEPT
                                           !.totalSeconds = @ + total]
                                   ELSE s.activeIssues[i]]],
         claimed |-> claimed]

\* _claim_null_chunks: returns the mutated session and the claimed count
_claim_null_chunks(s, issue_key) ==
    LET claimed == Len(NullChunks(s))
        total_claimed_seconds ==
            SumSeq([i \in 1..Len(NullChunks(s)) |-> ChunkSeconds(NullChunks(s)[i])])
        chunks == [i \in 1..Len(s.workChunks) |->
                     IF s.workChunks[i].issueKey # Null THEN s.workChunks[i]
                     ELSE [s.workChunks[i] EXCEPT !.issueKey = issue_key]]
        issues == IF claimed > 0 /\ issue_key \in ActiveKeys(s)
                  THEN [i \in 1..Len(s.activeIssues) |->
                          IF s.activeIssues[i].key = issue_key
                          THEN [s.activeIssues[i] EXCEPT
                                  !.totalSeconds = @ + total_claimed_seconds]
                          ELSE s.activeIssues[i]]
                  ELSE s.activeIssues
    IN  [session |-> [s EXCEPT !.workChunks = chunks, !.activeIssues = issues],
         claimed |-> claimed]

\* ------------------------------------------------- duplicate detector
\* a detector that would flag an overlap of one half
DuplicateAtHalf(s, summary) ==
    LET st == Tokens(summary)
        Hit(i) == LET et == Tokens(s.activeIssues[i].summary)
                  IN  /\ et # {}
                      /\ 100 * Cardinality(st \cap et)
                            >= 50 * Cardinality(st \cup et)
        hits == {i \in 1..Len(s.activeIssues) : Hit(i)}
    IN  IF st = {} \/ hits = {} THEN Null
        ELSE s.activeIssues[CHOOSE i \in hits : \A j \in hits : i <= j].key

\* _is_duplicate_issue: key of the first active issue whose stored summary
\* has Jaccard overlap >= 0.60 with the candidate, else Null
_is_duplicate_issue(s, summary) ==
    LET st == Tokens(summary)
        Hit(i) == LET et == Tokens(s.activeIssues[i].summary)
                  IN  /\ et # {}
                      /\ 100 * Cardinality(st \cap et)
                            >= 60 * Cardinality(st \cup et)
        hits == {i \in 1..Len(s.activeIssues) : Hit(i)}
    IN  IF st = {} \/ hits = {} THEN Null
        ELSE s.activeIssues[CHOOSE i \in hits : \A j \in hits : i <= j].key

\* ---------------------------------------------------------- auto-create
NoResult == [ok |-> FALSE, key |-> Null, duplicate |-> FALSE, parent |-> Null]

\* an auto-create that would send the request without a project key
AutoCreateWithoutProject(s, c, summary, http, t) ==
    LET clean_summary == extract_summary_from_prompt(summary)
        dup_key == _is_duplicate_issue(s, clean_summary)
        classification == classify_issue(clean_summary)
        parent_key == IF s.lastParentKey # Null THEN s.lastParentKey
                      ELSE s.currentIssue
        s1 == [s EXCEPT
                 !.activeIssues = SetIssue(@, NewIssue(http, t, clean_summary)),
                 !.currentIssue = http]
        s2 == _claim_null_chunks(s1, http).session
        s3 == IF parent_key # Null THEN [s2 EXCEPT !.lastParentKey = parent_key]
              ELSE s2
        quiet == [result |-> NoResult, session |-> s, requested |-> FALSE]
    IN  IF _resolve_autonomy(s, c) = "C" THEN quiet
        ELSE IF ~c.autoCreate THEN quiet
        ELSE IF ~c.hasCreds THEN quiet
        ELSE IF clean_summary = <<>> THEN quiet
        ELSE IF dup_key # Null
             THEN [result |-> [ok |-> TRUE, key |-> dup_key,
                               duplicate |-> TRUE, parent |-> Null],
                   session |-> s, requested |-> FALSE]
        ELSE IF classification.confidence < 65 THEN quiet
        ELSE IF http = Null
             THEN [result |-> NoResult, session |-> s, requested |-> TRUE]
        ELSE [result |-> [ok |-> TRUE, key |-> http, duplicate |-> FALSE,
                          parent |-> parent_key],
              session |-> s3, requested |-> TRUE]

\* an auto-create that would take the current issue as parent before
\* lastParentKey
AutoCreateParentCurrent(s, c, summary, http, t) ==
    LET clean_summary == extract_summary_from_prompt(summary)
        dup_key == _is_duplicate_issue(s, clean_summary)
        classification == classify_issue(clean_summary)
        parent_key == IF s.currentIssue # Null THEN s.currentIssue
                      ELSE s.lastParentKey
        s1 == [s EXCEPT
                 !.activeIssues = SetIssue(@, NewIssue(http, t, clean_summary)),
                 !.currentIssue = http]
        s2 == _claim_null_chunks(s1, http).session
        s3 == IF parent_key # Null THEN [s2 EXCEPT !.lastParentKey = parent_key]
              ELSE s2
        quiet == [result |-> NoResult, session |-> s, requested |-> FALSE]
    IN  IF _resolve_autonomy(s, c) = "C" THEN quiet
        ELSE IF ~c.autoCreate THEN quiet
        ELSE IF ~c.hasCreds THEN quiet
        ELSE IF clean_summary = <<>> THEN quiet
        ELSE IF dup_key # Null
             THEN [result |-> [ok |-> TRUE, key |-> dup_key,
                               duplicate |-> TRUE, parent |-> Null],
                   session |-> s, requested |-> FALSE]
        ELSE IF classification.confidence < 65 THEN quiet
        ELSE IF c.projectKey = "" THEN quiet
        ELSE IF http = Null
             THEN [result |-> NoResult, session |-> s, requested |-> TRUE]
        ELSE [result |-> [ok |-> TRUE, key |-> http, duplicate |-> FALSE,
                          parent |-> parent_key],
              session |-> s3, requested |-> TRUE]

\* _attempt_auto_create.  http is the key in the tracker's response, Null
\* when the request fails or the response has no key.  Returns the result,
\* the session it leaves (saved when it succeeds) and whether a create
\* request went out.
_attempt_auto_create(s, c, summary, http, t) ==
    LET clean_summary == extract_summary_from_prompt(summary)
        dup_key == _is_duplicate_issue(s, clean_summary)
        classification == classify_issue(clean_summary)
        parent_key == IF s.lastParentKey # Null THEN s.lastParentKey
                      ELSE s.currentIssue
        s1 == [s EXCEPT
                 !.activeIssues = SetIssue(@, NewIssue(http, t, clean_summary)),
                 !.currentIssue = http]
        s2 == _claim_null_chunks(s1, http).session
        s3 == IF parent_key # Null THEN [s2 EXCEPT !.lastParentKey = parent_key]
              ELSE s2
        quiet == [result |-> NoResult, session |-> s, requested |-> FALSE]
    IN  IF _resolve_autonomy(s, c) = "C" THEN quiet
        ELSE IF ~c.autoCreate THEN quiet
        ELSE IF ~c.hasCreds THEN quiet
        ELSE IF clean_summary = <<>> THEN quiet
        ELSE IF dup_key # Null
             THEN [result |-> [ok |-> TRUE, key |-> dup_key,
                               duplicate |-> TRUE, parent |-> Null],
                   session |-> s, requested |-> FALSE]
        ELSE IF classification.confidence < 65 THEN quiet
        ELSE IF c.projectKey = "" THEN quiet
        ELSE IF http = Null
             THEN [result |-> NoResult, session |-> s, requested |-> TRUE]
        ELSE [result |-> [ok |-> TRUE, key |-> http, duplicate |-> FALSE,
                          parent |-> parent_key],
              session |-> s3, requested |-> TRUE]

\* ------------------------------------------------------- time rounding
\* the granularity _round_seconds picks, in minutes
Granularity(rounding_minutes, accuracy) ==
    IF accuracy >= 8 THEN Max(rounding_minutes \div 15, 1)
    ELSE IF accuracy <= 3 THEN rounding_minutes * 2
    ELSE rounding_minutes

\* math.ceil(seconds / rounding_secs) for rounding_secs > 0
Ceil(seconds, rounding_secs) == (seconds + rounding_secs - 1) \div rounding_secs

\* a rounder that would round down to the granularity
RoundDown(seconds, rounding_minutes, accuracy) ==
    LET rounding_secs == Granularity(rounding_minutes, accuracy) * 60
    IN  IF seconds <= 0 THEN 0
        ELSE IF rounding_secs = 0 THEN ZeroDivisionError
        ELSE Max((seconds \div rounding_secs) * rounding_secs, rounding_secs)

\* _round_seconds; seconds / rounding_secs raises when rounding_secs is 0
_round_seconds(seconds, rounding_minutes, accuracy) ==
    LET rounding_secs == Granularity(rounding_minutes, accuracy) * 60
    IN  IF seconds <= 0 THEN 0
        ELSE IF rounding_secs = 0 THEN ZeroDivisionError
        ELSE Max(Ceil(seconds, rounding_secs) * rounding_secs, rounding_secs)

\* ------------------------------------------------------ worklog builder
\* files touched by a list of chunks (order is not modelled)
FilesOf(chunks) == UNION {chunks[i].filesChanged : i \in 1..Len(chunks)}

ActivityCount(chunks) ==
    SumSeq([i \in 1..Len(chunks) |-> Len(chunks[i].activities)])

Basename(path) == path[Len(path)]

\* the generated summary: the basenames of the touched files, else a phrase
FileSummary(files, phrase) ==
    IF files # {} THEN SetToSeq({Basename(f) : f \in files}) ELSE phrase

\* a builder that would give the null chunks to any active issue
BuildWithNullChunks(s, issue_key) ==
    LET sole_active == issue_key \in ActiveKeys(s)
        chunks == SelectSeq(s.workChunks,
                     LAMBDA c : c.issueKey = issue_key
                                \/ (sole_active /\ c.issueKey = Null))
        total_seconds == SumSeq([i \in 1..Len(chunks) |-> ChunkSeconds(chunks[i])])
    IN  [issueKey |-> issue_key,
         seconds |-> Min(total_seconds, MAX_WORKLOG_SECONDS),
         summary |-> FileSummary(FilesOf(chunks), <<"work", "on", "task">>),
         rawFacts |-> [files |-> FilesOf(chunks),
                       activityCount |-> ActivityCount(chunks)],
         capped |-> total_seconds > MAX_WORKLOG_SECONDS,
         chunks |-> {chunks[i].uid : i \in 1..Len(chunks)}]

\* a builder that would flag a total of exactly the cap as capped
BuildCappedAtLimit(s, issue_key) ==
    LET sole_active == Cardinality(ActiveKeys(s)) = 1 /\ issue_key \in ActiveKeys(s)
        chunks == SelectSeq(s.workChunks,
                     LAMBDA c : c.issueKey = issue_key
                                \/ (sole_active /\ c.issueKey = Null))
        total_seconds == SumSeq([i \in 1..Len(chunks) |-> ChunkSeconds(chunks[i])])
    IN  [issueKey |-> issue_key,
         seconds |-> Min(total_seconds, MAX_WORKLOG_SECONDS),
         summary |-> FileSummary(FilesOf(chunks), <<"work", "on", "task">>),
         rawFacts |-> [files |-> FilesOf(chunks),
                       activityCount |-> ActivityCount(chunks)],
         capped |-> total_seconds >= MAX_WORKLOG_SECONDS,
         chunks |-> {chunks[i].uid : i \in 1..Len(chunks)}]

\* build_worklog
build_worklog(s, issue_key) ==
    LET sole_active == Cardinality(ActiveKeys(s)) = 1 /\ issue_key \in ActiveKeys(s)
        chunks == SelectSeq(s.workChunks,
                     LAMBDA c : c.issueKey = issue_key
                                \/ (sole_active /\ c.issueKey = Null))
        total_seconds == SumSeq([i \in 1..Len(chunks) |-> ChunkSeconds(chunks[i])])
    IN  [issueKey |-> issue_key,
         seconds |-> Min(total_seconds, MAX_WORKLOG_SECONDS),
         summary |-> FileSummary(FilesOf(chunks), <<"work", "on", "task">>),
         rawFacts |-> [files |-> FilesOf(chunks),
                       activityCount |-> ActivityCount(chunks)],
         capped |-> total_seconds > MAX_WORKLOG_SECONDS,
         chunks |-> {chunks[i].uid : i \in 1..Len(chunks)}]

\* _build_unattributed_worklog
_build_unattributed_worklog(s) ==
    LET chunks == NullChunks(s)
    IN  [seconds |-> SumSeq([i \in 1..Len(chunks) |-> ChunkSeconds(chunks[i])]),
         summary |-> FileSummary(FilesOf(chunks), <<"unattributed", "work">>),
         rawFacts |-> [files |-> FilesOf(chunks),
                       activityCount |-> ActivityCount(chunks)],
         chunkCount |-> Len(chunks),
         chunks |-> {chunks[i].uid : i \in 1..Len(chunks)}]

\* ------------------------------------------------------------ segmenter
\* _get_idle_threshold_seconds
_get_idle_threshold_seconds(c) ==
    LET minutes == IF c.accuracy >= 8 THEN Max(c.idleThreshold \div 3, 5)
                   ELSE IF c.accuracy <= 3 THEN c.idleThreshold * 2
                   ELSE c.idleThreshold
    IN  minutes * 60

\* _get_dir_cluster: the first two directory segments of a path
_get_dir_cluster(path) ==
    IF path = <<>> THEN <<>>
    ELSE LET dirs == SelectSeq(SubSeq(path, 1, Len(path) - 1),
                               LAMBDA p : p # "")
         IN  SubSeq(dirs, 1, Min(2, Len(dirs)))

\* the clusters of the file-bearing activities of a group, in order
DirsOf(acts) ==
    LET withFile == SelectSeq(acts, LAMBDA a : a.file # <<>>)
    IN  [i \in 1..Len(withFile) |-> _get_dir_cluster(withFile[i].file)]

CountIn(d, ds) == Cardinality({i \in 1..Len(ds) : ds[i] = d})

FirstAt(d, ds) == CHOOSE i \in 1..Len(ds) :
                     ds[i] = d /\ \A j \in 1..(i - 1) : ds[j] # d

\* the most frequent element of ds outside `excl`, first-encountered on ties
Top(ds, excl) ==
    CHOOSE d \in Range(ds) \ excl :
        \A e \in Range(ds) \ excl :
            \/ CountIn(d, ds) > CountIn(e, ds)
            \/ CountIn(d, ds) = CountIn(e, ds) /\ FirstAt(d, ds) <= FirstAt(e, ds)

\* Counter(...).most_common(2) as a set
MostCommon2(ds) ==
    IF Range(ds) = {} THEN {}
    ELSE LET t1 == Top(ds, {})
         IN  IF Range(ds) = {t1} THEN {t1} ELSE {t1, Top(ds, {t1})}

\* _detect_context_switch
_detect_context_switch(prev_activities, curr_activities, accuracy) ==
    LET prev_dirs == DirsOf(prev_activities)
        curr_dirs == DirsOf(curr_activities)
        prev_top == MostCommon2(prev_dirs)
        curr_top == MostCommon2(curr_dirs)
        overlap == prev_top \cap curr_top
    IN  IF prev_activities = <<>> \/ curr_activities = <<>> THEN FALSE
        ELSE IF prev_dirs = <<>> \/ curr_dirs = <<>> THEN FALSE
        ELSE IF accuracy >= 8 THEN overlap = {}
        ELSE IF accuracy >= 4
             THEN overlap = {} /\ prev_top # {} /\ curr_top # {}
        ELSE overlap = {} /\ Len(prev_activities) >= 3
                          /\ Len(curr_activities) >= 3

\* buffer.sort(key=timestamp): a stable sort
InsertByTimestamp(a, sorted) ==
    LET k == Cardinality({i \in 1..Len(sorted) : sorted[i].timestamp <= a.timestamp})
    IN  SubSeq(sorted, 1, k) \o <<a>> \o SubSeq(sorted, k + 1, Len(sorted))

RECURSIVE SortFrom(_, _)
SortFrom(buffer, sorted) ==
    IF buffer = <<>> THEN sorted
    ELSE SortFrom(Tail(buffer), InsertByTimestamp(Head(buffer), sorted))

SortByTimestamp(buffer) == SortFrom(buffer, <<>>)

\* the split loop of cmd_drain_buffer over the sorted buffer, from index i
RECURSIVE SplitFrom(_, _, _, _, _)
SplitFrom(buffer, i, groups, current_group, idle_threshold) ==
    IF i > Len(buffer)
    THEN Append(groups, [activities |-> current_group, idle_before |-> FALSE,
                         idle_gap_seconds |-> 0, dir_shift |-> FALSE])
    ELSE LET prev == buffer[i - 1]
             curr == buffer[i]
             gap == curr.timestamp - prev.timestamp
             issue_changed == curr.issueKey # prev.issueKey
             prev_dir == _get_dir_cluster(prev.file)
             curr_dir == _get_dir_cluster(curr.file)
             dir_shift == /\ prev_dir # <<>> /\ curr_dir # <<>>
                          /\ prev_dir # curr_dir
                          /\ curr_dir \notin Range(DirsOf(current_group))
                          /\ Len(current_group) >= 2
         IN  IF gap > idle_threshold \/ issue_changed \/ dir_shift
             THEN SplitFrom(buffer, i + 1,
                      Append(groups,
                             [activities |-> current_group,
                              idle_before |-> gap > idle_threshold,
                              idle_gap_seconds |->
                                  IF gap > idle_threshold THEN gap ELSE 0,
                              dir_shift |-> dir_shift]),
                      <<curr>>, idle_threshold)
             ELSE SplitFrom(buffer, i + 1, groups,
                            Append(current_group, curr), idle_threshold)

DrainGroups(buffer, idle_threshold) ==
    SplitFrom(buffer, 2, <<>>, <<buffer[1]>>, idle_threshold)

\* the idleGaps list of the chunk made from a group
IdleGapsOf(groups, idx) ==
    IF groups[idx].idle_before /\ groups[idx].idle_gap_seconds > 0
    THEN << [startTime |-> groups[idx].activities[1].timestamp
                              - groups[idx].idle_gap_seconds,
             endTime |-> groups[idx].activities[1].timestamp,
             seconds |-> groups[idx].idle_gap_seconds] >>
    ELSE <<>>

\* the work chunk made from groups[idx]; uid0 + idx is its verification tag
ChunkOf(groups, idx, accuracy, t, uid0) ==
    LET activities == groups[idx].activities
    IN  [uid |-> uid0 + idx,
         id |-> <<t, idx - 1>>,
         issueKey |-> activities[1].issueKey,
         startTime |-> activities[1].timestamp,
         endTime |-> activities[Len(activities)].timestamp,
         activities |-> activities,
         filesChanged |-> {activities[i].file : i \in 1..Len(activities)} \ {<<>>},
         idleGaps |-> IdleGapsOf(groups, idx),
         needsAttribution |->
             \/ groups[idx].dir_shift
             \/ idx > 1 /\ _detect_context_switch(groups[idx - 1].activities,
                                                  activities, accuracy)]

\* a chunking that would group the buffer in arrival order, unsorted
DrainUnsorted(s, c, t, uid0) ==
    LET groups == DrainGroups(s.activityBuffer, _get_idle_threshold_seconds(c))
        new == [idx \in 1..Len(groups) |-> ChunkOf(groups, idx, c.accuracy, t, uid0)]
    IN  [s EXCEPT !.workChunks = @ \o new, !.activityBuffer = <<>>]

\* the chunking part of cmd_drain_buffer (buffer non-empty)
DrainChunks(s, c, t, uid0) ==
    LET buffer == SortByTimestamp(s.activityBuffer)
        groups == DrainGroups(buffer, _get_idle_threshold_seconds(c))
        new == [idx \in 1..Len(groups) |-> ChunkOf(groups, idx, c.accuracy, t, uid0)]
    IN  [s EXCEPT !.workChunks = @ \o new, !.activityBuffer = <<>>]

\* -------------------------------------------------------- post-worklogs
\* a filter that would also retry the entries the tracker rejected
SendableRetryingFailed(e) == e.status \in {"approved", "failed"}
                             /\ e.issueKey # Null /\ e.seconds > 0

\* entries cmd_post_worklogs hands to post_worklog_to_jira
Sendable(e) == e.status = "approved" /\ e.issueKey # Null /\ e.seconds > 0

\* cmd_post_worklogs on session s; `failing` are the entries whose request
\* the tracker rejects.  Returns the saved session and the requests made.
cmd_post_worklogs(s, c, failing) ==
    IF ~c.hasCreds THEN [session |-> s, sent |-> <<>>]
    ELSE LET pending == s.pendingWorklogs
             out == [i \in 1..Len(pending) |->
                       IF Sendable(pending[i])
                       THEN [pending[i] EXCEPT !.status =
                               IF pending[i].uid \in failing THEN "failed"
                               ELSE "posted"]
                       ELSE pending[i]]
             reqs == SelectSeq(pending, Sendable)
         IN  [session |-> [s EXCEPT !.pendingWorklogs = out],
              sent |-> [i \in 1..Len(reqs) |-> reqs[i].uid]]

\* ------------------------------------------------------- periodic flush
\* status of an attributed entry, from the autonomy value the handler holds
EntryStatus(autonomy) == IF autonomy = "C" THEN "pending" ELSE "approved"

\* the attributed entries a flush or a session-end queues, in activeIssues order
AttributedEntries(s, c, uid0) ==
    LET withTime == SelectSeq(s.activeIssues,
                       LAMBDA e : build_worklog(s, e.key).seconds > 0)
    IN  [i \in 1..Len(withTime) |->
           LET worklog == build_worklog(s, withTime[i].key)
           IN  [uid |-> uid0 + i,
                issueKey |-> withTime[i].key,
                seconds |-> _round_seconds(worklog.seconds, c.timeRounding, s.accuracy),
                summary |-> worklog.summary,
                rawFacts |-> worklog.rawFacts,
                status |-> EntryStatus(s.autonomyLevel),
                chunks |-> worklog.chunks]]

UnattributedEntry(s, c, uid) ==
    LET unattr == _build_unattributed_worklog(s)
    IN  [uid |-> uid,
         issueKey |-> Null,
         seconds |-> _round_seconds(unattr.seconds, c.timeRounding, s.accuracy),
         summary |-> unattr.summary,
         rawFacts |-> unattr.rawFacts,
         status |-> "unattributed",
         chunks |-> unattr.chunks]

\* what an operation did, besides the session it leaves
NoEffect(s, uid0) ==
    [session |-> s, uid |-> uid0, added |-> 0, queued |-> <<>>, sent |-> <<>>,
     created |-> 0, requested |-> FALSE, due |-> FALSE, flushed |-> FALSE,
     nullSeconds |-> 0, autoApplies |-> FALSE, autoOk |-> FALSE,
     raised |-> FALSE, archived |-> <<>>, planned |-> <<>>]

\* _round_seconds raised while these entries were being made
Raised(entries) ==
    \E i \in 1..Len(entries) : entries[i].seconds = ZeroDivisionError

\* a purge that would leave the null chunks in place
PurgeKeepingNull(chunks, processed_keys) ==
    SelectSeq(chunks, LAMBDA ch : ch.issueKey \notin processed_keys)

\* the chunks a flush leaves: those of issues it did not summarise
PurgeFlushed(chunks, processed_keys) ==
    SelectSeq(chunks, LAMBDA ch : ch.issueKey \notin processed_keys
                                  /\ ch.issueKey # Null)

\* a scheduler that would flush on every call
FlushOnEveryCall(s, c, t) == t >= s.lastWorklogTime

FlushDue(s, c, t) == t - s.lastWorklogTime >= c.worklogInterval * 60

\* whether the unattributed entry is queued after the auto-create attempt
QueueUnattributed(flushed_any, autonomy) == ~flushed_any \/ autonomy # "A"

\* the tracker's answer to a create request: a new key, or Null on failure
Http(env, n) == IF env.ok THEN NextKey(n) ELSE Null

\* _flush_periodic_worklogs is modelled in the order of its sections, each
\* section taking what the earlier ones computed.  env: commit (latest
\* commit message, <<>> when there is none), ok (whether a create request
\* would succeed), failing (pending entries whose post the tracker
\* rejects); n issues created so far.

\* the end of the flush: purge, advance lastWorklogTime, post unless "C"
FlushFinish(s3, c, t, uid, env, queued, auto, tryAuto, nullSeconds) ==
    LET s4 == [s3 EXCEPT
                 !.workChunks = PurgeFlushed(@, ActiveKeys(s3)),
                 !.lastWorklogTime = t]
        post == IF s3.autonomyLevel # "C"
                THEN cmd_post_worklogs(s4, c, env.failing)
                ELSE [session |-> s4, sent |-> <<>>]
    IN  [session |-> post.session,
         uid |-> uid,
         added |-> 0,
         queued |-> queued,
         sent |-> post.sent,
         created |-> IF auto.result.ok /\ ~auto.result.duplicate THEN 1 ELSE 0,
         requested |-> auto.requested,
         due |-> TRUE,
         flushed |-> TRUE,
         nullSeconds |-> nullSeconds,
         autoApplies |-> tryAuto,
         autoOk |-> auto.result.ok,
         raised |-> FALSE,
         archived |-> <<>>,
         planned |-> <<>>]

\* after the auto-create attempt: queue the unattributed entry or not, and
\* return early when nothing was flushed
FlushQueueNull(s1, c, t, uid1, env, attributed, unattr, hasNull, tryAuto, auto) ==
    LET flushed1 == attributed # <<>> \/ auto.result.ok
        queueNull == hasNull /\ QueueUnattributed(flushed1, s1.autonomyLevel)
        nullEntry == IF queueNull THEN <<UnattributedEntry(s1, c, uid1 + 1)>>
                     ELSE <<>>
        nullSeconds == IF NullChunks(s1) # <<>> THEN unattr.seconds ELSE 0
    IN  IF Raised(nullEntry)
        THEN [NoEffect(s1, uid1) EXCEPT
                !.due = TRUE, !.requested = auto.requested, !.raised = TRUE]
        ELSE IF ~(flushed1 \/ queueNull)
        THEN [NoEffect(s1, uid1) EXCEPT
                !.due = TRUE, !.requested = auto.requested,
                !.nullSeconds = nullSeconds, !.autoApplies = tryAuto]
        ELSE FlushFinish([auto.session EXCEPT !.pendingWorklogs = @ \o nullEntry],
                         c, t, uid1 + Len(nullEntry), env,
                         attributed \o nullEntry, auto, tryAuto, nullSeconds)

\* the unattributed part: the null chunks and the auto-create attempt
FlushNullChunks(s1, c, t, uid1, env, n, attributed, unattr) ==
    LET hasNull == NullChunks(s1) # <<>> /\ unattr.seconds > 0
        tryAuto == hasNull /\ s1.autonomyLevel = "A" /\ c.autoCreate
    IN  FlushQueueNull(s1, c, t, uid1, env, attributed, unattr, hasNull, tryAuto,
            IF tryAuto
            THEN _attempt_auto_create(s1, c,
                    IF env.commit # <<>> THEN env.commit ELSE unattr.summary,
                    Http(env, n), t)
            ELSE [result |-> NoResult, session |-> s1, requested |-> FALSE])

\* the attributed entries are appended to pendingWorklogs
FlushAttributed(s, c, t, uid0, env, n, attributed) ==
    IF Raised(attributed)
    THEN [NoEffect(s, uid0) EXCEPT !.due = TRUE, !.raised = TRUE]
    ELSE
    FlushNullChunks([s EXCEPT !.pendingWorklogs = @ \o attributed], c, t,
                    uid0 + Len(attributed), env, n, attributed,
                    _build_unattributed_worklog(s))

\* when the flush raises, nothing it did in memory is saved
FlushOutcome(s, uid0, r) ==
    IF r.raised
    THEN [NoEffect(s, uid0) EXCEPT
            !.due = TRUE, !.raised = TRUE, !.requested = r.requested]
    ELSE r

_flush_periodic_worklogs(s, c, t, uid0, env, n) ==
    IF ~FlushDue(s, c, t) THEN NoEffect(s, uid0)
    ELSE FlushOutcome(s, uid0,
             FlushAttributed(s, c, t, uid0, env, n, AttributedEntries(s, c, uid0)))

\* --------------------------------------------------------- drain-buffer
\* the flush that ends a drain which made chunks
DrainThenFlush(s, chunked, c, t, uid0, env, n) ==
    [_flush_periodic_worklogs(chunked, c, t,
         uid0 + Len(chunked.workChunks) - Len(s.workChunks), env, n)
     EXCEPT !.added = Len(chunked.workChunks) - Len(s.workChunks)]

\* cmd_drain_buffer on an existing session
cmd_drain_buffer(s, c, t, uid0, env, n) ==
    IF s.activityBuffer = <<>>
    THEN _flush_periodic_worklogs(s, c, t, uid0, env, n)
    ELSE DrainThenFlush(s, DrainChunks(s, c, t, uid0), c, t, uid0, env, n)

\* ------------------------------------------------------- planning time
\* activePlanning is <<>> (None) or holds one record: startTime, issueKey,
\* subject.  A skill name is the sequence of its words.
PLANNING_SKILL_PATTERNS == {"plan", "brainstorm", "spec", "explore", "research"}

PLANNING_IMPL_TOOLS == {"Edit", "Write", "MultiEdit", "NotebookEdit"}

\* shortest planning interval that is logged, in seconds
MinPlanningSeconds == 60

_is_planning_skill(skill_name) ==
    \E i \in 1..Len(skill_name) : skill_name[i] \in PLANNING_SKILL_PATTERNS

\* _log_planning_time: the worklog request sent to the tracker (its answer
\* is not looked at), none without credentials or without a target issue.
\* startTime tells which planning interval the request is for.
_log_planning_time(s, c, active, seconds) ==
    LET target == IF active.issueKey # Null THEN active.issueKey
                  ELSE IF s.currentIssue # Null THEN s.currentIssue
                  ELSE s.lastParentKey
    IN  IF ~c.hasCreds \/ target = Null THEN <<>>
        ELSE << [issueKey |-> target, seconds |-> seconds,
                 subject |-> active.subject, startTime |-> active.startTime] >>

\* a handler that would log every ended interval, however short
PlanningEventNoMinimum(s, c, ev, t) ==
    LET active == s.activePlanning
        is_start == \/ ev.tool = "EnterPlanMode"
                    \/ ev.tool = "Skill" /\ _is_planning_skill(ev.skill)
        is_end == ev.tool = "ExitPlanMode" \/ ev.tool \in PLANNING_IMPL_TOOLS
    IN  IF is_start /\ active = <<>>
        THEN [session |-> [s EXCEPT !.activePlanning =
                             << [startTime |-> t,
                                 issueKey |-> s.currentIssue,
                                 subject |-> IF ev.tool = "Skill"
                                             THEN <<"planning">> \o ev.skill
                                             ELSE <<"planning">>] >>],
              planned |-> <<>>]
        ELSE IF is_end /\ active # <<>>
        THEN [session |-> [s EXCEPT !.activePlanning = <<>>],
              planned |-> _log_planning_time([s EXCEPT !.activePlanning = <<>>], c,
                                             active[1], t - active[1].startTime)]
        ELSE [session |-> s, planned |-> <<>>]

\* _handle_planning_event: the session it leaves and the request it sends
_handle_planning_event(s, c, ev, t) ==
    LET active == s.activePlanning
        is_start == \/ ev.tool = "EnterPlanMode"
                    \/ ev.tool = "Skill" /\ _is_planning_skill(ev.skill)
        is_end == ev.tool = "ExitPlanMode" \/ ev.tool \in PLANNING_IMPL_TOOLS
    IN  IF is_start /\ active = <<>>
        THEN [session |-> [s EXCEPT !.activePlanning =
                             << [startTime |-> t,
                                 issueKey |-> s.currentIssue,
                                 subject |-> IF ev.tool = "Skill"
                                             THEN <<"planning">> \o ev.skill
                                             ELSE <<"planning">>] >>],
              planned |-> <<>>]
        ELSE IF is_end /\ active # <<>>
        THEN [session |-> [s EXCEPT !.activePlanning = <<>>],
              planned |-> IF t - active[1].startTime < MinPlanningSeconds THEN <<>>
                          ELSE _log_planning_time(
                                   [s EXCEPT !.activePlanning = <<>>], c,
                                   active[1], t - active[1].startTime)]
        ELSE [session |-> s, planned |-> <<>>]

\* ---------------------------------------------------------- session-end
\* the snapshot cmd_session_end writes to the archive: the session as it is
\* before the chunks are cleared
ArchiveSnapshot(s2) == <<s2>>

\* the end of cmd_session_end: archive, clear the chunks of the active
\* issues and restart their clocks
SessionEndClear(s2, t, uid, queued, auto, tryAuto, nullSeconds) ==
    [session |->
        [s2 EXCEPT
           !.workChunks = SelectSeq(@, LAMBDA ch : ch.issueKey \notin ActiveKeys(s2)),
           !.activeIssues = [i \in 1..Len(s2.activeIssues) |->
                               [s2.activeIssues[i] EXCEPT !.startTime = t]]],
     uid |-> uid,
     added |-> 0,
     queued |-> queued,
     sent |-> <<>>,
     created |-> IF auto.result.ok /\ ~auto.result.duplicate THEN 1 ELSE 0,
     requested |-> auto.requested,
     due |-> FALSE, flushed |-> FALSE,
     nullSeconds |-> nullSeconds,
     autoApplies |-> tryAuto,
     autoOk |-> auto.result.ok,
     raised |-> FALSE,
     archived |-> ArchiveSnapshot(s2),
     planned |-> <<>>]

\* after the auto-create attempt: queue the unattributed entry unless a new
\* issue took the chunks
SessionEndQueueNull(s1, c, t, uid1, attributed, unattr, hasNull, tryAuto, auto) ==
    LET nullEntry == IF hasNull /\ ~(auto.result.ok /\ ~auto.result.duplicate)
                     THEN <<UnattributedEntry(s1, c, uid1 + 1)>> ELSE <<>>
    IN  IF Raised(nullEntry)
        THEN [NoEffect(s1, uid1) EXCEPT
                !.requested = auto.requested, !.raised = TRUE]
        ELSE
        SessionEndClear([auto.session EXCEPT !.pendingWorklogs = @ \o nullEntry],
                        t, uid1 + Len(nullEntry), attributed \o nullEntry,
                        auto, tryAuto,
                        IF NullChunks(s1) # <<>> THEN unattr.seconds ELSE 0)

\* the rescue of unattributed work
SessionEndRescue(s1, c, t, uid1, env, n, attributed, unattr) ==
    LET hasNull == NullChunks(s1) # <<>> /\ unattr.seconds > 0
        tryAuto == hasNull /\ _resolve_autonomy(s1, c) = "A" /\ c.autoCreate
    IN  SessionEndQueueNull(s1, c, t, uid1, attributed, unattr, hasNull, tryAuto,
            IF tryAuto
            THEN _attempt_auto_create(s1, c,
                    IF env.commit # <<>> THEN env.commit ELSE unattr.summary,
                    Http(env, n), t)
            ELSE [result |-> NoResult, session |-> s1, requested |-> FALSE])

\* the attributed entries are appended and paused ghost issues pruned
SessionEndPrune(s, c, t, uid0, env, n, attributed, pending) ==
    LET ghost_keys == {e.key : e \in {x \in Range(s.activeIssues) :
                          /\ x.paused
                          /\ x.totalSeconds = 0
                          /\ ~\E i \in 1..Len(s.workChunks) :
                                 s.workChunks[i].issueKey = x.key
                          /\ ~\E i \in 1..Len(pending) :
                                 pending[i].issueKey = x.key
                                 /\ pending[i].seconds > 0}}
    IN  SessionEndRescue(
            [s EXCEPT !.pendingWorklogs = pending,
                      !.activeIssues = SelectSeq(@, LAMBDA e : e.key \notin ghost_keys)],
            c, t, uid0 + Len(attributed), env, n, attributed,
            _build_unattributed_worklog(s))

SessionEndAttributed(s, c, t, uid0, env, n, attributed) ==
    IF Raised(attributed) THEN [NoEffect(s, uid0) EXCEPT !.raised = TRUE]
    ELSE
    SessionEndPrune(s, c, t, uid0, env, n, attributed,
                    s.pendingWorklogs \o attributed)

\* the body of cmd_session_end after the buffer has been drained
SessionEndBody(s, c, t, uid0, env, n) ==
    SessionEndAttributed(s, c, t, uid0, env, n, AttributedEntries(s, c, uid0))

\* what the drain and the body did, taken together; when the body raises,
\* the session stays as the drain saved it
SessionEndMerge(drained, body) ==
    IF body.raised
    THEN [drained EXCEPT !.raised = TRUE,
                         !.requested = drained.requested \/ body.requested]
    ELSE
    [body EXCEPT !.added = drained.added,
                 !.queued = drained.queued \o body.queued,
                 !.sent = drained.sent,
                 !.created = drained.created + body.created,
                 !.requested = drained.requested \/ body.requested,
                 !.due = drained.due, !.flushed = drained.flushed]

SessionEndAfterDrain(drained, c, t, env, n) ==
    IF drained.raised THEN drained
    ELSE
    SessionEndMerge(drained,
        SessionEndBody(drained.session, c, t, drained.uid, env, n + drained.created))

\* the planning request cmd_session_end sends for a planning interval
\* still open
SessionEndPlanned(s, c, t) ==
    IF s.activePlanning = <<>> THEN <<>>
    ELSE IF t - s.activePlanning[1].startTime < MinPlanningSeconds THEN <<>>
    ELSE _log_planning_time(s, c, s.activePlanning[1],
                            t - s.activePlanning[1].startTime)

\* cmd_session_end on an existing session.  A planning interval still open
\* is logged and activePlanning reset in memory; then the buffered
\* activities are drained (the drain may flush and post): cmd_drain_buffer
\* works on the session file and the session is loaded again after it.
\* When the body raises and nothing was drained, nothing is saved.
cmd_session_end(s, c, t, uid0, env, n) ==
    LET r == SessionEndAfterDrain(
                 IF s.activityBuffer # <<>>
                 THEN cmd_drain_buffer(s, c, t, uid0, env, n)
                 ELSE NoEffect([s EXCEPT !.activePlanning = <<>>], uid0),
                 c, t, env, n)
    IN  [r EXCEPT !.planned = SessionEndPlanned(s, c, t),
                  !.session = IF r.raised /\ s.activityBuffer = <<>> THEN s ELSE @]

\* -------------------------------------------------------- session-start
\* session ids are the creation time to the second; a session without one
NoSessionId == 0

FreshSession(c, t) ==
    [sessionId |-> t,
     autonomyLevel |-> c.autonomyLevel,
     accuracy |-> c.accuracy,
     disabled |-> FALSE,
     activeIssues |-> <<>>,
     currentIssue |-> Null,
     lastParentKey |-> Null,
     workChunks |-> <<>>,
     pendingWorklogs |-> <<>>,
     activityBuffer |-> <<>>,
     activePlanning |-> <<>>,
     lastWorklogTime |-> t]

\* a resume that would prune every old issue without work of its own time,
\* whether or not a chunk carries its key
ResumePruneWithChunks(existing, c, t) ==
    LET stale_keys == {e.key : e \in {x \in Range(existing.activeIssues) :
                          /\ x.startTime > 0
                          /\ t - x.startTime > STALE_ISSUE_SECONDS
                          /\ x.totalSeconds = 0}}
    IN  [existing EXCEPT
           !.activeIssues = SelectSeq(@, LAMBDA e : e.key \notin stale_keys),
           !.currentIssue = IF @ \in stale_keys THEN Null ELSE @,
           !.autonomyLevel = c.autonomyLevel,
           !.accuracy = c.accuracy,
           !.sessionId = IF @ = NoSessionId THEN t ELSE @]

\* the resume branch of cmd_session_start: prune stale issues, sync settings
ResumeSession(existing, c, t) ==
    LET stale_keys == {e.key : e \in {x \in Range(existing.activeIssues) :
                          /\ x.startTime > 0
                          /\ t - x.startTime > STALE_ISSUE_SECONDS
                          /\ ~\E i \in 1..Len(existing.workChunks) :
                                 existing.workChunks[i].issueKey = x.key
                          /\ x.totalSeconds = 0}}
    IN  [existing EXCEPT
           !.activeIssues = SelectSeq(@, LAMBDA e : e.key \notin stale_keys),
           !.currentIssue = IF @ \in stale_keys THEN Null ELSE @,
           !.autonomyLevel = c.autonomyLevel,
           !.accuracy = c.accuracy,
           !.sessionId = IF @ = NoSessionId THEN t ELSE @]

\* cmd_session_start.  env: branch (key found in the branch name, or Null),
\* commit and ok as for the flush.  `has` tells whether a session file exists.
cmd_session_start(existing, has, c, t, uid0, env, n) ==
    LET fresh == FreshSession(c, t)
        branch_issue == IF c.projectKey = "" THEN Null ELSE env.branch
        withBranch == _claim_null_chunks(
                          [fresh EXCEPT
                             !.currentIssue = branch_issue,
                             !.activeIssues = SetIssue(@, NewIssue(branch_issue, t, <<>>))],
                          branch_issue)
        tryAuto == /\ _resolve_autonomy(fresh, c) = "A" /\ c.autoCreate
                   /\ env.commit # <<>>
        auto == IF tryAuto
                THEN _attempt_auto_create(fresh, c, env.commit, Http(env, n), t)
                ELSE [result |-> NoResult, session |-> fresh, requested |-> FALSE]
        isNew == auto.result.ok /\ ~auto.result.duplicate
        quiet == NoEffect(existing, uid0)
    IN  IF ~c.enabled THEN quiet
        ELSE IF has /\ existing.activeIssues # <<>>
        THEN [quiet EXCEPT !.session = ResumeSession(existing, c, t)]
        ELSE IF branch_issue # Null
        THEN [quiet EXCEPT !.session = withBranch.session]
        ELSE [quiet EXCEPT !.session = auto.session,
                           !.created = IF isNew THEN 1 ELSE 0,
                           !.requested = auto.requested,
                           !.autoApplies = tryAuto,
                           !.autoOk = auto.result.ok]

\* --------------------------------------------------------- log-activity
READ_ONLY_TOOLS == {"Read", "Glob", "Grep", "LS", "WebSearch", "WebFetch",
                    "TodoRead", "NotebookRead", "AskUserQuestion",
                    "TaskList", "TaskGet", "ToolSearch", "Skill", "Task",
                    "ListMcpResourcesTool", "BashOutput"}

TOOL_TYPE_MAP(tool) ==
    CASE tool \in {"Edit", "MultiEdit", "NotebookEdit"} -> "file_edit"
      [] tool = "Write" -> "file_write"
      [] tool = "Bash" -> "bash"
      [] tool = "Task" -> "agent"
      [] OTHER -> "other"

\* _sanitize_command on the commands the environment issues
_sanitize_command(command) ==
    CASE command = "curl -u bob:s3cret" -> "curl -u bob:[REDACTED]"
      [] OTHER -> command

\* tool events the host delivers: tool name, file_path, command
ToolEvents ==
    { [tool |-> "Edit", file |-> <<"src", "api", "a.ts">>, command |-> ""],
      [tool |-> "Read", file |-> <<"src", "api", "a.ts">>, command |-> ""] }

\* file_path contains "/.claude/"
IsInternalPath(file) == \E i \in 2..(Len(file) - 1) : file[i] = ".claude"

\* the session with the event appended to the activity buffer
WithActivity(s, ev, t) ==
    [s EXCEPT !.activityBuffer =
       Append(@, [timestamp |-> t,
                  tool |-> ev.tool,
                  type |-> TOOL_TYPE_MAP(ev.tool),
                  issueKey |-> s.currentIssue,
                  file |-> ev.file,
                  command |-> _sanitize_command(ev.command)])]

\* cmd_log_activity on an existing session: the session it leaves and the
\* planning request it sends
cmd_log_activity(s, c, ev, t) ==
    IF ev.tool = "Skill" /\ _is_planning_skill(ev.skill)
    THEN _handle_planning_event(s, c, ev, t)
    ELSE IF ev.tool \in READ_ONLY_TOOLS THEN [session |-> s, planned |-> <<>>]
    ELSE IF ev.file # <<>> /\ IsInternalPath(ev.file)
    THEN [session |-> s, planned |-> <<>>]
    ELSE IF \/ ev.tool \in {"EnterPlanMode", "ExitPlanMode"}
            \/ ev.tool \in PLANNING_IMPL_TOOLS /\ s.activePlanning # <<>>
    THEN _handle_planning_event(WithActivity(s, ev, t), c, ev, t)
    ELSE [session |-> WithActivity(s, ev, t), planned |-> <<>>]

\* cmd_log_activity as an effect
LogActivityRun(s, c, ev, t, uid0) ==
    [NoEffect(cmd_log_activity(s, c, ev, t).session, uid0) EXCEPT
       !.planned = cmd_log_activity(s, c, ev, t).planned]

\* ---------------------------------------------------- auto-create-issue
\* cmd_auto_create_issue on an existing session
cmd_auto_create_issue(s, c, prompt, t, uid0, env, n) ==
    LET auto == _attempt_auto_create(s, c, prompt, Http(env, n), t)
    IN  IF _resolve_autonomy(s, c) = "C" THEN NoEffect(s, uid0)
        ELSE [NoEffect(s, uid0) EXCEPT
                !.session = auto.session,
                !.created = IF auto.result.ok /\ ~auto.result.duplicate THEN 1 ELSE 0,
                !.requested = auto.requested,
                !.autoApplies = TRUE,
                !.autoOk = auto.result.ok]

\* ---------------------------------------------------- files, in pieces
\* A file is absent or holds the pieces written to it so far.  json.dump
\* writes a document in `Pieces` pieces; only all of them, in order and of
\* one document, parse.
Absent == [exists |-> FALSE, pieces |-> <<>>]

json_dump(data) == [i \in 1..Pieces |-> [doc |-> data, part |-> i]]

FileOf(data) == [exists |-> TRUE, pieces |-> json_dump(data)]

\* a file that holds the beginning of a document only
Truncated(data) == [exists |-> TRUE, pieces |-> SubSeq(json_dump(data), 1, 1)]

WellFormed(file) ==
    /\ file.exists
    /\ Len(file.pieces) = Pieces
    /\ \A i \in 1..Pieces : /\ file.pieces[i].part = i
                            /\ file.pieces[i].doc = file.pieces[1].doc

\* json.load: the document (value holds it), or JSONDecodeError
json_load(file) ==
    IF WellFormed(file) THEN [raised |-> FALSE, value |-> <<file.pieces[1].doc>>]
    ELSE [raised |-> TRUE, value |-> <<>>]

\* load_config: {} (no value) when the file is absent; does not catch
load_config(file) ==
    IF ~file.exists THEN [raised |-> FALSE, value |-> <<>>]
    ELSE json_load(file)

\* load_session: {} when the file is absent or does not parse
load_session(file) ==
    IF ~file.exists THEN <<>>
    ELSE IF json_load(file).raised THEN <<>>
    ELSE json_load(file).value

\* a save that would write the session file in place
SaveInPlace(file, tmp, data, step) ==
    CASE step = "mkstemp" ->
             [file |-> [exists |-> TRUE, pieces |-> <<>>],
              tmp |-> [exists |-> TRUE, pieces |-> <<>>]]
      [] step = "dump" ->
             [file |-> [exists |-> TRUE,
                        pieces |-> Append(file.pieces,
                                          json_dump(data)[Len(tmp.pieces) + 1])],
              tmp |-> [tmp EXCEPT !.pieces =
                         Append(@, json_dump(data)[Len(@) + 1])]]
      [] OTHER -> [file |-> file, tmp |-> Absent]

\* save_session, one system call at a time: mkstemp makes an empty temporary
\* file, json.dump writes `data` to it piece by piece, os.replace puts it in
\* the place of the session file
save_session(file, tmp, data, step) ==
    CASE step = "mkstemp" ->
             [file |-> file, tmp |-> [exists |-> TRUE, pieces |-> <<>>]]
      [] step = "dump" ->
             [file |-> file,
              tmp |-> [tmp EXCEPT !.pieces =
                         Append(@, json_dump(data)[Len(@) + 1])]]
      [] OTHER -> [file |-> tmp, tmp |-> Absent]

\* ------------------------------------------------------- state machine
\* the configurations explored: autonomyLevel, autoCreate, credentials
Settings ==
    { <<"A", TRUE, TRUE>>, <<"A", FALSE, TRUE>>, <<"B", TRUE, TRUE>>,
      <<"C", TRUE, TRUE>>, <<"3", FALSE, TRUE>>, <<"7", TRUE, FALSE>>,
      <<"10", TRUE, TRUE>> }

ConfigOf(x) ==
    [autonomyLevel |-> x[1],
     accuracy |-> DefaultAccuracy,
     idleThreshold |-> DefaultIdleThreshold,
     timeRounding |-> DefaultTimeRounding,
     worklogInterval |-> DefaultWorklogInterval,
     autoCreate |-> x[2],
     hasCreds |-> x[3],
     projectKey |-> "PROJ",
     enabled |-> TRUE]

Configs == {ConfigOf(x) : x \in Settings}

\* what load_session's callers see while no session file exists
NoSession ==
    [sessionId |-> NoSessionId, autonomyLevel |-> "", accuracy |-> DefaultAccuracy, disabled |-> FALSE,
     activeIssues |-> <<>>, currentIssue |-> Null, lastParentKey |-> Null,
     workChunks |-> <<>>, pendingWorklogs |-> <<>>, activityBuffer |-> <<>>,
     activePlanning |-> <<>>, lastWorklogTime |-> 0]

\* whether the tracker accepts a create request (it stops after MaxCreated)
Oks == IF tracker.created < MaxCreated THEN BOOLEAN ELSE {FALSE}

Env(commit, ok, failing) == [commit |-> commit, ok |-> ok, failing |-> failing]

\* the effects cmd_drain_buffer can have in the current state, one per
\* answer of git and of the tracker
DrainRun(e) == cmd_drain_buffer(session, cfg, now, nextUid, e, tracker.created)

DrainRuns ==
    UNION { { DrainRun(Env(commit, ok, failing)) :
                failing \in SUBSET Range(DrainRun(Env(commit, ok, {})).sent) } :
            commit \in CommitMsgs, ok \in Oks }

\* likewise for cmd_session_end
EndRun(e) == cmd_session_end(session, cfg, now, nextUid, e, tracker.created)

EndRuns ==
    UNION { { EndRun(Env(commit, ok, failing)) :
                failing \in SUBSET Range(EndRun(Env(commit, ok, {})).sent) } :
            commit \in CommitMsgs, ok \in Oks }

\* likewise for cmd_session_start
StartRuns ==
    { cmd_session_start(session, hasSession, cfg, now, nextUid,
          [branch |-> branch, commit |-> commit, ok |-> ok], tracker.created) :
      branch \in BranchKeys \cup {Null}, commit \in CommitMsgs, ok \in Oks }

\* open(archive_path, "w") and json.dump: the file named after the
\* snapshot's session id holds the snapshot
WriteArchive(files, snapshots) ==
    IF snapshots = <<>> THEN files
    ELSE [id \in DOMAIN files \cup {snapshots[1].sessionId} |->
            IF id = snapshots[1].sessionId THEN snapshots[1] ELSE files[id]]

\* the command's effect r on the session file, the tracker and the tags
CommitSession(r) ==
    /\ session' = r.session
    /\ nextUid' = r.uid
    /\ tracker' = [created |-> tracker.created + r.created,
                   worklogs |-> tracker.worklogs \o r.sent,
                   planning |-> tracker.planning \o r.planned]
    /\ UNCHANGED <<cfg, now, ticks>>

\* the command's effect r becomes the next state.  The archive directory,
\* which no command reads, is followed by ArchiveSpec below.
Commit(r) ==
    /\ CommitSession(r)
    /\ UNCHANGED <<archive, disk, procs, saves, host>>

\* Spec, WorklogSpec and ArchiveSpec run every command as one step on the
\* documents: no file is followed write by write, no invocation is under way
OneStepPerCommand ==
    /\ disk = <<>>
    /\ procs = <<>>
    /\ saves = <<>>
    /\ host = <<>>

Init ==
    /\ cfg \in Configs
    /\ session = NoSession
    /\ hasSession = FALSE
    /\ now = T0
    /\ ticks = 0
    /\ tracker = [created |-> 0, worklogs |-> <<>>, planning |-> <<>>]
    /\ nextUid = 0
    /\ archive = <<>>
    /\ OneStepPerCommand

Tick ==
    /\ ticks < MaxTicks
    /\ \E d \in TickSteps : now' = now + d
    /\ ticks' = ticks + 1
    /\ UNCHANGED <<session, hasSession, cfg, tracker, nextUid, archive,
                   disk, procs, saves, host>>

SessionStart ==
    /\ hasSession' = (hasSession \/ cfg.enabled)
    /\ \E r \in StartRuns : Commit(r)

LogActivity ==
    /\ hasSession
    /\ Len(session.activityBuffer) + Len(session.workChunks) < MaxChunks
    /\ \E ev \in ToolEvents :
          Commit(LogActivityRun(session, cfg, ev, now, nextUid))
    /\ UNCHANGED hasSession

DrainBuffer ==
    /\ hasSession
    /\ nextUid < MaxUid
    /\ \E r \in DrainRuns : Commit(r)
    /\ UNCHANGED hasSession

SessionEnd ==
    /\ hasSession
    /\ nextUid < MaxUid
    /\ \E r \in EndRuns : Commit(r)
    /\ UNCHANGED hasSession

PostWorklogs ==
    /\ hasSession
    /\ \E failing \in SUBSET Range(cmd_post_worklogs(session, cfg, {}).sent) :
          LET r == cmd_post_worklogs(session, cfg, failing)
          IN  Commit([NoEffect(r.session, nextUid) EXCEPT !.sent = r.sent])
    /\ UNCHANGED hasSession

AutoCreateIssue ==
    /\ hasSession
    /\ \E prompt \in Prompts, ok \in Oks :
          Commit(cmd_auto_create_issue(session, cfg, prompt, now, nextUid,
                     [commit |-> <<>>, ok |-> ok, failing |-> {}],
                     tracker.created))
    /\ UNCHANGED hasSession

Next ==
    \/ Tick
    \/ SessionStart
    \/ LogActivity
    \/ DrainBuffer
    \/ SessionEnd
    \/ PostWorklogs
    \/ AutoCreateIssue

Spec == Init /\ [][Next]_vars

\* ------------------------------------------- sessions already under way
\* The worklog builder and the rounder are pure in the persisted session and
\* the configuration.  WorklogSpec runs the commands that read recorded work
\* from sessions that hold work already: issues started by the user, chunks
\* of up to several hours, and configurations with other rounding settings.

\* a build-worklog that would drop the chunks it summed and save
BuildAndClear(s, issue_key) ==
    [session |-> [s EXCEPT !.workChunks =
                     SelectSeq(@, LAMBDA ch : ch.uid \notin
                                     build_worklog(s, issue_key).chunks)],
     out |-> build_worklog(s, issue_key)]

\* cmd_build_worklog: loads the session, prints the worklog, saves nothing
cmd_build_worklog(s, issue_key) ==
    [session |-> s, out |-> build_worklog(s, issue_key)]

StartedKeys == {"X-1", "X-2"}

\* sessions under way: active issues in start order, lastParentKey, the
\* chunks recorded so far as <<issueKey, seconds of work>>, and the buffered
\* activities as <<issueKey, seconds after the last chunk>> or
\* <<issueKey, seconds after the last chunk, file>> (no file: a command)
Seeds ==
    { [issues |-> <<"X-1">>, parent |-> Null,
       chunks |-> << <<"X-1", 1500>> >>, buffer |-> <<>>],
      [issues |-> <<"X-1", "X-2">>, parent |-> "X-0",
       chunks |-> << <<"X-1", 600>>, <<Null, 600>> >>, buffer |-> <<>>],
      [issues |-> <<"X-1">>, parent |-> Null,
       chunks |-> << <<"X-1", 15000>> >>, buffer |-> <<>>],
      [issues |-> <<>>, parent |-> Null,
       chunks |-> << <<Null, 15000>> >>, buffer |-> <<>>],
      [issues |-> <<"X-1">>, parent |-> "X-0",
       chunks |-> << <<"X-1", 7200>>, <<Null, 7200>> >>, buffer |-> <<>>],
      [issues |-> <<"X-1">>, parent |-> Null,
       chunks |-> << <<"X-1", 600>> >>,
       buffer |-> << <<"X-1", 60>>, <<"X-1", 360>> >>],
      [issues |-> <<"X-1">>, parent |-> Null,
       chunks |-> <<>>,
       buffer |-> << <<"X-1", 60, <<"src", "api", "a.ts">> >>,
                     <<"X-1", 120, <<>> >>,
                     <<"X-1", 180, <<"lib", "db", "b.ts">> >>,
                     <<"X-1", 240, <<"README.md">> >>,
                     <<"X-1", 300, <<"src", "api", "a.ts">> >> >>],
      [issues |-> <<"X-1", "X-2">>, parent |-> Null,
       chunks |-> <<>>,
       buffer |-> << <<"X-1", 120, <<"src", "api", "a.ts">> >>,
                     <<"X-1", 60, <<"src", "api", "a.ts">> >>,
                     <<"X-1", 180, <<"lib", "db", "b.ts">> >>,
                     <<"X-2", 1140, <<"lib", "db", "b.ts">> >>,
                     <<"X-1", 1080, <<"lib", "db", "b.ts">> >>,
                     <<"X-2", 3000, <<"lib", "db", "b.ts">> >> >>] }

\* the summaries the started issues were given
SeedSummary(k) == IF k = "X-1" THEN <<"fix", "login", "crash", "today">>
                  ELSE <<>>

\* when the i-th chunk of a seed starts: the chunks follow one another from T0
RECURSIVE SeedStart(_, _)
SeedStart(chunks, i) ==
    IF i = 1 THEN T0 ELSE SeedStart(chunks, i - 1) + chunks[i - 1][2]

SeedActivity(t, key) ==
    [timestamp |-> t, tool |-> "Edit", type |-> TOOL_TYPE_MAP("Edit"),
     issueKey |-> key, file |-> <<"src", "api", "a.ts">>, command |-> ""]

\* the i-th chunk of a seed; chunks persisted before the run carry tags below 0
SeedChunk(chunks, i) ==
    [uid |-> 0 - i,
     id |-> <<T0, i - 1>>,
     issueKey |-> chunks[i][1],
     startTime |-> SeedStart(chunks, i),
     endTime |-> SeedStart(chunks, i) + chunks[i][2],
     activities |-> << SeedActivity(SeedStart(chunks, i), chunks[i][1]),
                       SeedActivity(SeedStart(chunks, i) + chunks[i][2], chunks[i][1]) >>,
     filesChanged |-> { <<"src", "api", "a.ts">> },
     idleGaps |-> <<>>,
     needsAttribution |-> FALSE]

\* the time of the last recorded event of a seed
SeedEnd(seed) ==
    SeedStart(seed.chunks, Len(seed.chunks) + 1)
        + (IF seed.buffer = <<>> THEN 0 ELSE seed.buffer[Len(seed.buffer)][2])

\* a buffered activity of a seed: an edit of the file, or a Bash command
SeedBuffered(t, b) ==
    IF Len(b) < 3 THEN SeedActivity(t, b[1])
    ELSE [SeedActivity(t, b[1]) EXCEPT
            !.file = b[3],
            !.tool = IF b[3] = <<>> THEN "Bash" ELSE "Edit",
            !.type = TOOL_TYPE_MAP(IF b[3] = <<>> THEN "Bash" ELSE "Edit")]

SeedBuffer(seed) ==
    [i \in 1..Len(seed.buffer) |->
        SeedBuffered(SeedStart(seed.chunks, Len(seed.chunks) + 1) + seed.buffer[i][2],
                     seed.buffer[i])]

SeedSession(seed, c) ==
    [FreshSession(c, T0) EXCEPT
       !.activeIssues = [i \in 1..Len(seed.issues) |->
                           NewIssue(seed.issues[i], T0, SeedSummary(seed.issues[i]))],
       !.currentIssue = IF seed.issues = <<>> THEN Null ELSE seed.issues[1],
       !.lastParentKey = seed.parent,
       !.workChunks = [i \in 1..Len(seed.chunks) |-> SeedChunk(seed.chunks, i)],
       !.activityBuffer = SeedBuffer(seed)]

\* autonomyLevel, autoCreate, credentials, timeRounding, accuracy, projectKey
SeedSettings ==
    { <<"C", FALSE, TRUE, 15, 5, "PROJ">>,
      <<"B", FALSE, TRUE, 25, 5, "PROJ">>,
      <<"A", TRUE, TRUE, 15, 9, "PROJ">>,
      <<"B", TRUE, TRUE, 30, 2, "PROJ">>,
      <<"A", TRUE, TRUE, 15, 5, "">>,
      <<"A", TRUE, FALSE, 15, 5, "PROJ">>,
      <<"B", FALSE, TRUE, 0, 5, "PROJ">> }

SeedConfigOf(x) ==
    [ConfigOf(<<x[1], x[2], x[3]>>) EXCEPT
       !.timeRounding = x[4], !.accuracy = x[5], !.projectKey = x[6]]

WorklogInit ==
    /\ \E x \in SeedSettings, seed \in Seeds :
          /\ cfg = SeedConfigOf(x)
          /\ session = SeedSession(seed, cfg)
          /\ now = SeedEnd(seed)
    /\ hasSession = TRUE
    /\ ticks = 0
    /\ tracker = [created |-> 0, worklogs |-> <<>>, planning |-> <<>>]
    /\ nextUid = 0
    /\ archive = <<>>
    /\ OneStepPerCommand

BuildWorklog ==
    /\ hasSession
    /\ \E issue_key \in ActiveKeys(session) \cup StartedKeys :
          Commit(NoEffect(cmd_build_worklog(session, issue_key).session, nextUid))
    /\ UNCHANGED hasSession

WorklogNext ==
    \/ Tick
    \/ SessionStart
    \/ DrainBuffer
    \/ SessionEnd
    \/ PostWorklogs
    \/ AutoCreateIssue
    \/ BuildWorklog

WorklogSpec == WorklogInit /\ [][WorklogNext]_vars

\* ------------------------------------------------ invocations that overlap
\* RaceSpec launches NumProcs invocations on one session file and
\* runs them one system call at a time: the existence check and the read of
\* load_session, the command's work in memory, and the steps of save_session.
Procs == 1..NumProcs

RaceCommands == {"session-start", "log-activity", "build-worklog"}

\* tool events of the overlapping log-activity calls
RaceEvents ==
    { [tool |-> "Edit", file |-> <<"src", "api", "a.ts">>, command |-> ""],
      [tool |-> "Write", file |-> <<"lib", "db", "b.ts">>, command |-> ""],
      [tool |-> "Read", file |-> <<"src", "api", "a.ts">>, command |-> ""] }

IdleProc ==
    [pc |-> "idle", cmd |-> "", ev |-> <<>>, atCheck |-> 0,
     validAtCheck |-> FALSE, read |-> <<>>, data |-> <<>>, tmp |-> Absent]

\* the session the race starts on, when there is one: issue X-1 is current
RaceSession(c) ==
    [FreshSession(c, T0) EXCEPT
       !.activeIssues = <<NewIssue("X-1", T0, <<>>)>>,
       !.currentIssue = "X-1"]

\* a step of p leaves the session file as `file`: what load_session returns
\* from now on, and the list of documents the file has held (a document is
\* listed when p puts a file in place or the content changes to it)
SessionFileBecomes(file, p, replaced) ==
    /\ disk' = [disk EXCEPT !.session = file]
    /\ hasSession' = (load_session(file) # <<>>)
    /\ session' = IF load_session(file) # <<>> THEN load_session(file)[1]
                  ELSE NoSession
    /\ saves' = IF load_session(file) # <<>> /\ (replaced \/ file # disk.session)
                THEN Append(saves, [by |-> p, doc |-> load_session(file)[1]])
                ELSE saves

RaceInit ==
    /\ cfg = ConfigOf(<<"C", FALSE, TRUE>>)
    /\ \E file \in {Absent, FileOf(RaceSession(cfg))} :
          /\ disk = [session |-> file]
          /\ hasSession = (load_session(file) # <<>>)
          /\ session = IF load_session(file) # <<>> THEN load_session(file)[1]
                       ELSE NoSession
          /\ saves = IF load_session(file) # <<>>
                     THEN <<[by |-> 0, doc |-> load_session(file)[1]]>>
                     ELSE <<>>
    /\ procs = [p \in Procs |-> IdleProc]
    /\ now = T0
    /\ ticks = 0
    /\ tracker = [created |-> 0, worklogs |-> <<>>, planning |-> <<>>]
    /\ nextUid = 0
    /\ archive = <<>>
    /\ host = <<>>

RaceFrame == UNCHANGED <<cfg, now, ticks, tracker, nextUid, archive, host>>

\* the host launches a command
Launch(p) ==
    /\ procs[p].pc = "idle"
    /\ \E cmd \in RaceCommands :
          \E ev \in IF cmd = "log-activity" THEN RaceEvents ELSE {<<>>} :
             procs' = [procs EXCEPT ![p] = [@ EXCEPT !.pc = "exists",
                                                     !.cmd = cmd, !.ev = ev]]
    /\ UNCHANGED <<session, hasSession, disk, saves>>
    /\ RaceFrame

\* load_session: os.path.exists(path)
CheckExists(p) ==
    /\ procs[p].pc = "exists"
    /\ procs' = [procs EXCEPT ![p] =
                   [@ EXCEPT !.pc = IF disk.session.exists THEN "open" ELSE "loaded",
                             !.atCheck = Len(saves),
                             !.validAtCheck = WellFormed(disk.session)]]
    /\ UNCHANGED <<session, hasSession, disk, saves>>
    /\ RaceFrame

\* load_session: open(path) and json.load, {} on JSONDecodeError
OpenAndLoad(p) ==
    /\ procs[p].pc = "open"
    /\ procs' = [procs EXCEPT ![p] =
                   [@ EXCEPT !.pc = "loaded",
                             !.read = load_session(disk.session)]]
    /\ UNCHANGED <<session, hasSession, disk, saves>>
    /\ RaceFrame

\* what the command saves, given what it loaded: nothing (<<>>) when it
\* returns before save_session
RaceWork(cmd, ev, read, c, t) ==
    IF cmd = "build-worklog" THEN <<>>
    ELSE IF cmd = "log-activity"
    THEN (IF read = <<>> \/ cmd_log_activity(read[1], c, ev, t).session = read[1]
          THEN <<>>
          ELSE <<cmd_log_activity(read[1], c, ev, t).session>>)
    ELSE << cmd_session_start(IF read = <<>> THEN NoSession ELSE read[1],
                              read # <<>>, c, t, 0,
                              [branch |-> Null, commit |-> <<>>, ok |-> FALSE],
                              0).session >>

\* the command's work in memory, up to mkstemp when it saves
Work(p) ==
    /\ procs[p].pc = "loaded"
    /\ LET data == RaceWork(procs[p].cmd, procs[p].ev, procs[p].read, cfg, now)
           out == save_session(disk.session, procs[p].tmp,
                               IF data = <<>> THEN NoSession ELSE data[1], "mkstemp")
       IN  IF data = <<>>
           THEN /\ procs' = [procs EXCEPT ![p] = [@ EXCEPT !.pc = "done"]]
                /\ UNCHANGED <<session, hasSession, disk, saves>>
           ELSE /\ procs' = [procs EXCEPT ![p] =
                               [@ EXCEPT !.pc = "dump", !.data = data,
                                         !.tmp = out.tmp]]
                /\ SessionFileBecomes(out.file, p, FALSE)
    /\ RaceFrame

\* save_session: json.dump writes the next piece
Dump(p) ==
    /\ procs[p].pc = "dump"
    /\ LET out == save_session(disk.session, procs[p].tmp, procs[p].data[1], "dump")
       IN  /\ procs' = [procs EXCEPT ![p] =
                          [@ EXCEPT !.pc = IF Len(out.tmp.pieces) = Pieces
                                           THEN "replace" ELSE "dump",
                                    !.tmp = out.tmp]]
           /\ SessionFileBecomes(out.file, p, FALSE)
    /\ RaceFrame

\* save_session: os.replace(tmp_path, path)
Replace(p) ==
    /\ procs[p].pc = "replace"
    /\ LET out == save_session(disk.session, procs[p].tmp, procs[p].data[1], "replace")
       IN  /\ procs' = [procs EXCEPT ![p] = [@ EXCEPT !.pc = "done", !.tmp = out.tmp]]
           /\ SessionFileBecomes(out.file, p, TRUE)
    /\ RaceFrame

RaceNext ==
    \E p \in Procs :
        \/ Launch(p)
        \/ CheckExists(p)
        \/ OpenAndLoad(p)
        \/ Work(p)
        \/ Dump(p)
        \/ Replace(p)

RaceSpec == RaceInit /\ [][RaceNext]_vars

\* --------------------------------------------- what the host sees of a run
\* HostSpec starts from every state of the session file and of the config
\* file and runs the commands as the host does, each in the order in which
\* its code loads the two files.
HostConfigs == { ConfigOf(<<"A", TRUE, TRUE>>), ConfigOf(<<"C", FALSE, TRUE>>) }

\* what cfg.get(...) answers on {}: the defaults, no project, no credentials
EmptyConfig == [ConfigOf(<<"C", FALSE, FALSE>>) EXCEPT !.projectKey = ""]

ConfigOnDisk(file) ==
    IF load_config(file).value = <<>> THEN EmptyConfig
    ELSE load_config(file).value[1]

SessionOnDisk(file) ==
    IF load_session(file) = <<>> THEN NoSession ELSE load_session(file)[1]

\* the answers the tracker gives to the successive requests of one call
ResponseScripts == { <<201>>, <<500>>, <<429, 201>>, <<429, 500>>, <<429, 429>> }

\* a worklog the tracker accepted from add-worklog: no pending entry behind it
Manual == 0

\* post_worklog_to_jira: one urlopen; True on 200 or 201, False on HTTPError
post_worklog_to_jira(responses) ==
    [ok |-> responses[1] \in {200, 201}, attempts |-> 1]

HostResult(cmd, raised) ==
    [cmd |-> cmd, raised |-> raised, ok |-> FALSE, attempts |-> 0, script |-> <<>>]

\* the session files the host may find: none, a malformed one, a session
\* under way, and one that was switched off (disabled: true)
HostSessionFiles(c) ==
    { Absent, Truncated(RaceSession(c)), FileOf(RaceSession(c)),
      FileOf([RaceSession(c) EXCEPT !.disabled = TRUE]) }

HostInit ==
    /\ \E c \in HostConfigs :
          /\ disk \in [session : HostSessionFiles(c),
                       config : {Absent, Truncated(c), FileOf(c)}]
    /\ cfg = ConfigOnDisk(disk.config)
    /\ session = SessionOnDisk(disk.session)
    /\ hasSession = (load_session(disk.session) # <<>>)
    /\ now = T0
    /\ ticks = 0
    /\ tracker = [created |-> 0, worklogs |-> <<>>, planning |-> <<>>]
    /\ nextUid = 0
    /\ archive = <<>>
    /\ procs = <<>>
    /\ saves = <<>>
    /\ host = HostResult("", FALSE)

\* the command returned before it changed anything, or raised
HostReturns(cmd, raised) ==
    /\ host' = HostResult(cmd, raised)
    /\ UNCHANGED <<session, hasSession, cfg, now, ticks, tracker, nextUid,
                   archive, disk, procs, saves>>

\* the command ran with effect r and saved the session it leaves
HostSaves(cmd, r) ==
    /\ CommitSession(r)
    /\ hasSession' = TRUE
    /\ disk' = [disk EXCEPT !.session = FileOf(r.session)]
    /\ archive' = WriteArchive(archive, r.archived)
    /\ host' = HostResult(cmd, r.raised)
    /\ UNCHANGED <<procs, saves>>

\* cmd_session_start: load_config, then load_session
HostSessionStart ==
    IF load_config(disk.config).raised THEN HostReturns("session-start", TRUE)
    ELSE IF ~cfg.enabled THEN HostReturns("session-start", FALSE)
    ELSE \E r \in StartRuns : HostSaves("session-start", r)

\* cmd_log_activity: load_session, return when there is none, then load_config
HostLogActivity ==
    IF load_session(disk.session) = <<>> THEN HostReturns("log-activity", FALSE)
    ELSE IF load_config(disk.config).raised THEN HostReturns("log-activity", TRUE)
    ELSE /\ Len(session.activityBuffer) + Len(session.workChunks) < MaxChunks
         /\ \E ev \in ToolEvents :
               HostSaves("log-activity",
                         LogActivityRun(session, cfg, ev, now, nextUid))

\* cmd_drain_buffer: load_config, then load_session, return when there is none
HostDrainBuffer ==
    IF load_config(disk.config).raised THEN HostReturns("drain-buffer", TRUE)
    ELSE IF load_session(disk.session) = <<>> THEN HostReturns("drain-buffer", FALSE)
    ELSE /\ nextUid < MaxUid
         /\ \E r \in DrainRuns : HostSaves("drain-buffer", r)

\* cmd_session_end: load_config, then load_session, return when there is none
HostSessionEnd ==
    IF load_config(disk.config).raised THEN HostReturns("session-end", TRUE)
    ELSE IF load_session(disk.session) = <<>> THEN HostReturns("session-end", FALSE)
    ELSE /\ nextUid < MaxUid
         /\ \E r \in EndRuns : HostSaves("session-end", r)

\* cmd_post_worklogs: load_config, then load_session, return when there is none
HostPostWorklogs ==
    IF load_config(disk.config).raised THEN HostReturns("post-worklogs", TRUE)
    ELSE IF load_session(disk.session) = <<>> THEN HostReturns("post-worklogs", FALSE)
    ELSE \E failing \in SUBSET Range(cmd_post_worklogs(session, cfg, {}).sent) :
            LET r == cmd_post_worklogs(session, cfg, failing)
            IN  HostSaves("post-worklogs",
                          [NoEffect(r.session, nextUid) EXCEPT !.sent = r.sent])

\* cmd_add_worklog: one call of post_worklog_to_jira, ok or exit status 1
AddWorklog ==
    /\ cfg.hasCreds
    /\ Len(tracker.worklogs) < MaxUid
    /\ \E responses \in ResponseScripts :
          LET r == post_worklog_to_jira(responses)
          IN  /\ host' = [cmd |-> "add-worklog", raised |-> FALSE, ok |-> r.ok,
                          attempts |-> r.attempts, script |-> responses]
              /\ tracker' = [tracker EXCEPT !.worklogs =
                               IF r.ok THEN Append(@, Manual) ELSE @]
    /\ UNCHANGED <<session, hasSession, cfg, now, ticks, nextUid, archive,
                   disk, procs, saves>>

HostNext ==
    \/ HostSessionStart
    \/ HostLogActivity
    \/ HostDrainBuffer
    \/ HostSessionEnd
    \/ HostPostWorklogs
    \/ AddWorklog

HostSpec == HostInit /\ [][HostNext]_vars

\* ------------------------------------------------ sessions that were left
\* ResumeSpec starts two days after T0 on sessions whose two issues were
\* started a while ago (ages in seconds), with or without time of their own,
\* with or without a chunk that carries a key.
IssueAges == {600, STALE_ISSUE_SECONDS, STALE_ISSUE_SECONDS + 1}

LeftChunks == { <<>>, << <<"X-1", 600>> >>, << <<"X-2", 600>> >>, << <<Null, 600>> >> }

LeftSession(c, t, age1, age2, total1, chunks, current) ==
    [FreshSession(c, T0) EXCEPT
       !.activeIssues =
           << [NewIssue("X-1", t - age1, <<>>) EXCEPT !.totalSeconds = total1],
              NewIssue("X-2", t - age2, <<>>) >>,
       !.currentIssue = current,
       !.workChunks = [i \in 1..Len(chunks) |-> SeedChunk(chunks, i)]]

ResumeInit ==
    /\ cfg \in HostConfigs
    /\ now = T0 + 2 * STALE_ISSUE_SECONDS
    /\ \E age1 \in IssueAges, age2 \in IssueAges, total1 \in {0, 600},
          chunks \in LeftChunks, current \in {"X-1", "X-2"} :
          session = LeftSession(cfg, now, age1, age2, total1, chunks, current)
    /\ hasSession = TRUE
    /\ ticks = 0
    /\ tracker = [created |-> 0, worklogs |-> <<>>, planning |-> <<>>]
    /\ nextUid = 0
    /\ archive = <<>>
    /\ OneStepPerCommand

ResumeSpec == ResumeInit /\ [][WorklogNext]_vars

\* ------------------------------------------------ a day between commands
\* IdleSpec starts without a session, like Spec, and lets the clock move by
\* ten minutes or by more than a day between commands, so that a session
\* with buffered activity can be resumed after its issue went stale.
IdleSteps == {600, STALE_ISSUE_SECONDS + 1}

IdleInit ==
    /\ cfg \in HostConfigs
    /\ session = NoSession
    /\ hasSession = FALSE
    /\ now = T0
    /\ ticks = 0
    /\ tracker = [created |-> 0, worklogs |-> <<>>, planning |-> <<>>]
    /\ nextUid = 0
    /\ archive = <<>>
    /\ OneStepPerCommand

IdleTick ==
    /\ ticks < MaxTicks
    /\ \E d \in IdleSteps : now' = now + d
    /\ ticks' = ticks + 1
    /\ UNCHANGED <<session, hasSession, cfg, tracker, nextUid, archive,
                   disk, procs, saves, host>>

IdleNext ==
    \/ IdleTick
    \/ SessionStart
    \/ LogActivity
    \/ DrainBuffer
    \/ SessionEnd
    \/ AutoCreateIssue

IdleSpec == IdleInit /\ [][IdleNext]_vars

\* --------------------------------------------- post-worklogs runs overlap
\* PostSpec launches NumProcs runs of cmd_post_worklogs on one session file
\* and runs them one step at a time: the load, one tracker request per loop
\* iteration, and the save.  The session file changes only at the os.replace
\* of save_session, so the save is one step here.
QueuedEntry(uid, key, status) ==
    [uid |-> uid, issueKey |-> key, seconds |-> 900, summary |-> <<"a.ts">>,
     rawFacts |-> [files |-> <<>>, activityCount |-> 1], status |-> status,
     chunks |-> {}]

\* the pendingWorklogs the runs find
QueuedLists ==
    { << QueuedEntry(1, "X-1", "approved") >>,
      << QueuedEntry(1, "X-1", "approved"), QueuedEntry(2, "X-1", "approved") >>,
      << QueuedEntry(1, Null, "unattributed"), QueuedEntry(2, "X-1", "approved") >>,
      << QueuedEntry(1, "X-1", "pending"), QueuedEntry(2, "X-1", "posted") >> }

\* with and without credentials
PostConfigs == { ConfigOf(<<"C", FALSE, TRUE>>), ConfigOf(<<"C", FALSE, FALSE>>) }

IdleRun ==
    [pc |-> "idle", data |-> NoSession, at |-> 1, sent |-> <<>>, atLoad |-> 0]

PostInit ==
    /\ cfg \in PostConfigs
    /\ \E file \in {Absent} \cup
                    { FileOf([RaceSession(cfg) EXCEPT !.pendingWorklogs = q]) :
                        q \in QueuedLists } :
          /\ disk = [session |-> file]
          /\ hasSession = (load_session(file) # <<>>)
          /\ session = IF load_session(file) # <<>> THEN load_session(file)[1]
                       ELSE NoSession
          /\ saves = IF load_session(file) # <<>>
                     THEN <<[by |-> 0, doc |-> load_session(file)[1]]>>
                     ELSE <<>>
    /\ procs = [p \in Procs |-> IdleRun]
    /\ now = T0
    /\ ticks = 0
    /\ tracker = [created |-> 0, worklogs |-> <<>>, planning |-> <<>>]
    /\ nextUid = 0
    /\ archive = <<>>
    /\ host = <<>>

PostFrame == UNCHANGED <<cfg, now, ticks, nextUid, archive, host>>

\* a run that would leave an entry the tracker rejected approved
StatusRetrying(ok) == IF ok THEN "posted" ELSE "approved"

\* the status a sent entry gets from the tracker's answer
PostStatus(ok) == IF ok THEN "posted" ELSE "failed"

RECURSIVE SaveSteps(_, _, _)
SaveSteps(file, tmp, data) ==
    IF Len(tmp.pieces) = Pieces
    THEN save_session(file, tmp, data, "replace").file
    ELSE SaveSteps(file, save_session(file, tmp, data, "dump").tmp, data)

\* the session file after a whole save_session(data)
SavedFile(file, data) ==
    SaveSteps(file, save_session(file, Absent, data, "mkstemp").tmp, data)

\* the host launches a run: a flush that posts at once, or /jira-approve
PostLaunch(p) ==
    /\ procs[p].pc = "idle"
    /\ procs' = [procs EXCEPT ![p] = [@ EXCEPT !.pc = "load"]]
    /\ UNCHANGED <<session, hasSession, disk, saves, tracker>>
    /\ PostFrame

\* load_session, then the return without a session or without credentials
PostLoad(p) ==
    /\ procs[p].pc = "load"
    /\ LET read == load_session(disk.session)
       IN  procs' = [procs EXCEPT ![p] =
                       IF read = <<>> \/ ~cfg.hasCreds
                       THEN [@ EXCEPT !.pc = "done"]
                       ELSE [@ EXCEPT !.pc = "post", !.data = read[1],
                                      !.atLoad = Len(saves)]]
    /\ UNCHANGED <<session, hasSession, disk, saves, tracker>>
    /\ PostFrame

\* one iteration of `for entry in pending`
PostEntry(p) ==
    /\ procs[p].pc = "post"
    /\ procs[p].at <= Len(procs[p].data.pendingWorklogs)
    /\ LET entry == procs[p].data.pendingWorklogs[procs[p].at]
       IN  IF Sendable(entry)
           THEN \E ok \in BOOLEAN :
                  /\ tracker' = [tracker EXCEPT !.worklogs = Append(@, entry.uid)]
                  /\ procs' = [procs EXCEPT ![p] =
                        [@ EXCEPT !.data.pendingWorklogs[procs[p].at].status =
                                      PostStatus(ok),
                                  !.sent = Append(@, entry.uid),
                                  !.at = @ + 1]]
           ELSE /\ procs' = [procs EXCEPT ![p] = [@ EXCEPT !.at = @ + 1]]
                /\ UNCHANGED tracker
    /\ UNCHANGED <<session, hasSession, disk, saves>>
    /\ PostFrame

\* after the loop: save_session when something was sent
PostSave(p) ==
    /\ procs[p].pc = "post"
    /\ procs[p].at > Len(procs[p].data.pendingWorklogs)
    /\ procs' = [procs EXCEPT ![p] = [@ EXCEPT !.pc = "done"]]
    /\ IF procs[p].sent # <<>>
       THEN SessionFileBecomes(SavedFile(disk.session, procs[p].data), p, TRUE)
       ELSE UNCHANGED <<session, hasSession, disk, saves>>
    /\ UNCHANGED tracker
    /\ PostFrame

PostNext ==
    \E p \in Procs :
        \/ PostLaunch(p)
        \/ PostLoad(p)
        \/ PostEntry(p)
        \/ PostSave(p)

PostSpec == PostInit /\ [][PostNext]_vars

\* --------------------------------------------------------- plan mode
\* PlanningSpec delivers plan-mode events, planning and other skills and
\* edits inside and outside .claude/ to sessions with and without a current
\* issue, with and without credentials, a second or a minute apart, and
\* ends the session in between.
PlanningEvents ==
    { [tool |-> "EnterPlanMode", file |-> <<>>, command |-> "", skill |-> <<>>],
      [tool |-> "ExitPlanMode", file |-> <<>>, command |-> "", skill |-> <<>>],
      [tool |-> "Skill", file |-> <<>>, command |-> "",
       skill |-> <<"superpowers", "brainstorm">>],
      [tool |-> "Skill", file |-> <<>>, command |-> "",
       skill |-> <<"commit">>],
      [tool |-> "Edit", file |-> <<"src", "api", "a.ts">>, command |-> "",
       skill |-> <<>>],
      [tool |-> "Write", file |-> <<"home", ".claude", "plans", "p.md">>,
       command |-> "", skill |-> <<>>] }

ShortSteps == {1, 59}

PlanningConfigs == { ConfigOf(<<"C", FALSE, TRUE>>), ConfigOf(<<"C", FALSE, FALSE>>) }

PlanningInit ==
    /\ cfg \in PlanningConfigs
    /\ session \in { RaceSession(cfg), FreshSession(cfg, T0),
                     [FreshSession(cfg, T0) EXCEPT !.lastParentKey = "X-0"] }
    /\ hasSession = TRUE
    /\ now = T0
    /\ ticks = 0
    /\ tracker = [created |-> 0, worklogs |-> <<>>, planning |-> <<>>]
    /\ nextUid = 0
    /\ archive = <<>>
    /\ OneStepPerCommand

ShortTick ==
    /\ ticks < MaxTicks
    /\ \E d \in ShortSteps : now' = now + d
    /\ ticks' = ticks + 1
    /\ UNCHANGED <<session, hasSession, cfg, tracker, nextUid, archive,
                   disk, procs, saves, host>>

LogPlanning ==
    /\ hasSession
    /\ Len(session.activityBuffer) + Len(session.workChunks) < MaxChunks
    /\ \E ev \in PlanningEvents :
          Commit(LogActivityRun(session, cfg, ev, now, nextUid))
    /\ UNCHANGED hasSession

PlanningNext ==
    \/ ShortTick
    \/ LogPlanning
    \/ SessionEnd

PlanningSpec == PlanningInit /\ [][PlanningNext]_vars

\* ------------------------------------------------- the archive directory
\* ArchiveSpec runs the sessions under way and follows the files that
\* cmd_session_end writes to .claude/jira-sessions/.
SessionEndArchive ==
    /\ hasSession
    /\ nextUid < MaxUid
    /\ \E r \in EndRuns :
          /\ CommitSession(r)
          /\ archive' = WriteArchive(archive, r.archived)
    /\ UNCHANGED <<hasSession, disk, procs, saves, host>>

ArchiveNext ==
    \/ Tick
    \/ SessionStart
    \/ DrainBuffer
    \/ SessionEndArchive
    \/ AutoCreateIssue

ArchiveSpec == WorklogInit /\ [][ArchiveNext]_vars

\* ================================================================ claims
\* pending entries and chunks are followed from state to state by their uid
EntryWithUid(s, u) ==
    SelectSeq(s.pendingWorklogs, LAMBDA e : e.uid = u)

ChunkWithUid(s, u) ==
    SelectSeq(s.workChunks, LAMBDA ch : ch.uid = u)

Uids(entries) == [i \in 1..Len(entries) |-> entries[i].uid]

NoDuplicates(seq) ==
    \A i, j \in 1..Len(seq) : seq[i] = seq[j] => i = j

\* the step drained the buffer into chunks and purged none of them
DrainedStep ==
    /\ hasSession
    /\ session.activityBuffer # <<>>
    /\ session'.workChunks = DrainChunks(session, cfg, now, nextUid).workChunks

\* C1: when a drain splits two consecutive activities because their gap
\* exceeds the idle threshold, the chunk that starts after the gap carries
\* exactly one idleGaps entry {splitPoint - gap, splitPoint, gap}, and the
\* chunk that ends before the gap carries no entry for it.
C1_IdleGapOnLaterChunk ==
    [][ DrainedStep =>
          LET chunks == session'.workChunks
              first == Len(session.workChunks) + 1
          IN  \A i \in first..(Len(chunks) - 1) :
                 LET gap == chunks[i + 1].startTime - chunks[i].endTime
                     entry == [startTime |-> chunks[i + 1].startTime - gap,
                               endTime |-> chunks[i + 1].startTime,
                               seconds |-> gap]
                 IN  gap > _get_idle_threshold_seconds(cfg) =>
                        /\ chunks[i + 1].idleGaps = <<entry>>
                        /\ \A k \in 1..Len(chunks[i].idleGaps) :
                              chunks[i].idleGaps[k].seconds # gap
      ]_vars

\* C2: every work chunk a drain produced has endTime >= startTime and an
\* unclamped endTime - startTime - sum(idleGaps.seconds) >= 0.
C2_ChunkDurationsNonNegative ==
    \A i \in 1..Len(session.workChunks) :
        /\ session.workChunks[i].endTime >= session.workChunks[i].startTime
        /\ ChunkTime(session.workChunks[i]) >= 0

IsUnattributed(e) == e.issueKey = Null /\ e.status = "unattributed"

\* C3: in a due periodic flush where the null chunks have positive total
\* duration, if auto-creation does not apply or returns no result, exactly
\* one pending worklog with issueKey null and status 'unattributed' is
\* appended, whether or not attributed worklogs were queued in the same flush.
C3_UnattributedTimeQueued ==
    [][ \A r \in DrainRuns :
          (/\ hasSession
           /\ Commit(r)
           /\ r.due
           /\ r.nullSeconds > 0
           /\ ~r.autoOk)
          => /\ Len(SelectSeq(r.queued, IsUnattributed)) = 1
             /\ \A i \in 1..Len(r.queued) :
                   EntryWithUid(session', r.queued[i].uid) # <<>>
      ]_vars

\* C4: when the autonomy level maps to C, the attributed entries a periodic
\* flush or a session-end queues get status 'pending' and the operation
\* posts nothing to the tracker; when it maps to A or B they get 'approved'.
C4_StatusFollowsResolvedAutonomy ==
    [][ \A r \in DrainRuns \cup EndRuns :
          (hasSession /\ Commit(r))
          => /\ \A i \in 1..Len(r.queued) :
                   r.queued[i].issueKey # Null =>
                      r.queued[i].status =
                         IF _resolve_autonomy(session, cfg) = "C"
                         THEN "pending" ELSE "approved"
             /\ _resolve_autonomy(session, cfg) = "C" =>
                   tracker'.worklogs = tracker.worklogs
      ]_vars

\* C5: a session-end run right after a session-end, with no new activity in
\* between, appends no pending worklog.
C5_SecondSessionEndQueuesNothing ==
    [][ \A r \in EndRuns :
          (hasSession /\ Commit(r))
          => \A commit \in CommitMsgs, ok \in BOOLEAN :
                LET again == cmd_session_end(session', cfg, now, nextUid',
                                 Env(commit, ok, {}), tracker'.created)
                IN  /\ again.queued = <<>>
                    /\ again.session.pendingWorklogs = session'.pendingWorklogs
      ]_vars

\* times at which a following operation may run: at once, or an interval later
LaterTimes == {now, now + cfg.worklogInterval * 60}

\* C6: after a due periodic flush that queued at least one entry, workChunks
\* holds no null chunk and no chunk of an active issue, lastWorklogTime is
\* the flush time, and a following flush or session-end with no new activity
\* queues no further pending worklog.
C6_FlushPurgesWhatItQueued ==
    [][ (hasSession /\ Len(session'.pendingWorklogs) > Len(session.pendingWorklogs))
        => \A r \in DrainRuns :
              (Commit(r) /\ r.due /\ r.queued # <<>>)
              => /\ \A i \in 1..Len(session'.workChunks) :
                       /\ session'.workChunks[i].issueKey # Null
                       /\ session'.workChunks[i].issueKey \notin ActiveKeys(session')
                 /\ session'.lastWorklogTime = now
                 /\ \A t \in LaterTimes, commit \in CommitMsgs, ok \in BOOLEAN :
                       /\ cmd_drain_buffer(session', cfg, t, nextUid',
                              Env(commit, ok, {}), tracker'.created).queued = <<>>
                       /\ cmd_session_end(session', cfg, t, nextUid',
                              Env(commit, ok, {}), tracker'.created).queued = <<>>
      ]_vars

\* a flush has just queued an unattributed entry and left no chunk behind
C6_Witness ==
    /\ hasSession
    /\ now > T0
    /\ session.lastWorklogTime = now
    /\ session.workChunks = <<>>
    /\ \E i \in 1..Len(session.pendingWorklogs) :
          IsUnattributed(session.pendingWorklogs[i])
    /\ \E i \in 1..Len(session.pendingWorklogs) :
          session.pendingWorklogs[i].issueKey # Null

\* C7: only entries with status 'approved', an issue key and seconds > 0 are
\* sent; a sent entry becomes 'posted' or 'failed' and stays in
\* pendingWorklogs; entries of any other status are not sent, so no entry is
\* ever sent to the tracker twice.
C7_SentOnlyApprovedAndOnce ==
    [][ LET sentNow == SubSeq(tracker'.worklogs, Len(tracker.worklogs) + 1,
                              Len(tracker'.worklogs))
        IN  /\ \A k \in 1..Len(sentNow) :
                  /\ \E i \in 1..Len(session'.pendingWorklogs) :
                        /\ session'.pendingWorklogs[i].uid = sentNow[k]
                        /\ session'.pendingWorklogs[i].status \in {"posted", "failed"}
                        /\ session'.pendingWorklogs[i].issueKey # Null
                        /\ session'.pendingWorklogs[i].seconds > 0
                  /\ \A i \in 1..Len(session.pendingWorklogs) :
                        session.pendingWorklogs[i].uid = sentNow[k] =>
                           session.pendingWorklogs[i].status = "approved"
            /\ \A failing \in SUBSET Range(Uids(session.pendingWorklogs)) :
                  LET r == cmd_post_worklogs(session, cfg, failing)
                      before == session.pendingWorklogs
                      after == r.session.pendingWorklogs
                  IN  /\ Len(after) = Len(before)
                      /\ \A i \in 1..Len(before) :
                            IF before[i].uid \in Range(r.sent)
                            THEN /\ before[i].status = "approved"
                                 /\ after[i] = [before[i] EXCEPT !.status =
                                        IF before[i].uid \in failing
                                        THEN "failed" ELSE "posted"]
                            ELSE after[i] = before[i]
            /\ NoDuplicates(tracker'.worklogs)
      ]_vars

\* an entry was sent, the tracker rejected it, and it is still queued
C7_Witness ==
    /\ hasSession
    /\ \E i \in 1..Len(session.pendingWorklogs) :
          /\ session.pendingWorklogs[i].status = "failed"
          /\ session.pendingWorklogs[i].uid \in Range(tracker.worklogs)
    /\ \E i \in 1..Len(session.pendingWorklogs) :
          /\ session.pendingWorklogs[i].status = "posted"
          /\ session.pendingWorklogs[i].uid \in Range(tracker.worklogs)

\* C8: a chunk whose issueKey is non-null keeps it for as long as it stays
\* in workChunks; the only change of an issueKey is from null to a key.
C8_IssueKeyNeverReassigned ==
    [][ \A i \in 1..Len(session.workChunks) :
          \A j \in 1..Len(session'.workChunks) :
             (/\ session.workChunks[i].uid = session'.workChunks[j].uid
              /\ session.workChunks[i].issueKey # session'.workChunks[j].issueKey)
             => /\ session.workChunks[i].issueKey = Null
                /\ session'.workChunks[j].issueKey \in ActiveKeys(session')
      ]_vars

\* a chunk recorded without an issue now carries a key, next to a chunk that
\* still carries the key it was recorded under
C8_Witness ==
    /\ hasSession
    /\ \E i, j \in 1..Len(session.workChunks) :
          /\ session.workChunks[i].activities[1].issueKey = Null
          /\ session.workChunks[i].issueKey # Null
          /\ session.workChunks[j].activities[1].issueKey # Null
          /\ session.workChunks[j].issueKey = session.workChunks[j].activities[1].issueKey

\* keys Retroactive Attribution may be asked to claim for
ClaimKeys == ActiveKeys(session) \cup BranchKeys \cup {NextKey(tracker.created)}

\* C9: after Retroactive Attribution of key K no chunk has a null issueKey,
\* every previously-null chunk carries K and no other chunk changed, the
\* returned count is the number of previously-null chunks, and K's
\* totalSeconds, if K is an active issue, grew by the sum over the claimed
\* chunks of max(endTime - startTime - sum(idleGaps.seconds), 0); if K is
\* not an active issue no totalSeconds changes and no issue is created.
C9_ClaimPostconditions ==
    hasSession =>
       \A K \in ClaimKeys :
          LET r == _claim_null_chunks(session, K)
              before == session.workChunks
              after == r.session.workChunks
              wasNull == {i \in 1..Len(before) : before[i].issueKey = Null}
              grown == SumSeq([i \in 1..Len(before) |->
                          IF i \in wasNull
                          THEN Max(before[i].endTime - before[i].startTime
                                   - SumSeq([k \in 1..Len(before[i].idleGaps) |->
                                               before[i].idleGaps[k].seconds]), 0)
                          ELSE 0])
          IN  /\ Len(after) = Len(before)
              /\ \A i \in 1..Len(after) :
                    /\ after[i].issueKey # Null
                    /\ after[i] = IF i \in wasNull
                                  THEN [before[i] EXCEPT !.issueKey = K]
                                  ELSE before[i]
              /\ r.claimed = Cardinality(wasNull)
              /\ Len(r.session.activeIssues) = Len(session.activeIssues)
              /\ \A i \in 1..Len(session.activeIssues) :
                    r.session.activeIssues[i] =
                       IF session.activeIssues[i].key = K
                       THEN [session.activeIssues[i] EXCEPT !.totalSeconds = @ + grown]
                       ELSE session.activeIssues[i]
              /\ r.session.pendingWorklogs = session.pendingWorklogs
              /\ r.session.currentIssue = session.currentIssue

\* a chunk recorded without an issue was claimed for an active issue, whose
\* totalSeconds grew by the chunk's time
C9_Witness ==
    /\ hasSession
    /\ \E i \in 1..Len(session.workChunks) :
          /\ session.workChunks[i].activities[1].issueKey = Null
          /\ session.workChunks[i].issueKey \in ActiveKeys(session)
          /\ ChunkSeconds(session.workChunks[i]) > 0
          /\ IssueOf(session, session.workChunks[i].issueKey).totalSeconds
                = ChunkSeconds(session.workChunks[i])

\* C10: when session-start detects an issue key from the branch name and the
\* persisted session holds null chunks, those chunks are still in workChunks
\* afterwards, carry the detected key, and the issue's totalSeconds includes
\* their duration.
C10_SessionStartClaimsPersistedChunks ==
    [][ \A branch \in BranchKeys, commit \in CommitMsgs, ok \in Oks :
          LET r == cmd_session_start(session, hasSession, cfg, now, nextUid,
                       [branch |-> branch, commit |-> commit, ok |-> ok],
                       tracker.created)
              persisted == NullChunks(session)
          IN  (/\ hasSession
               /\ persisted # <<>>
               /\ cfg.projectKey # ""
               /\ session.activeIssues = <<>>
               /\ Commit(r))
              => /\ \A i \in 1..Len(persisted) :
                       /\ ChunkWithUid(session', persisted[i].uid) # <<>>
                       /\ ChunkWithUid(session', persisted[i].uid)[1].issueKey = branch
                 /\ branch \in ActiveKeys(session')
                 /\ IssueOf(session', branch).totalSeconds >=
                       SumSeq([i \in 1..Len(persisted) |-> ChunkSeconds(persisted[i])])
      ]_vars

\* keys the worklog builder may be asked about
BuilderKeys == ActiveKeys(session) \cup StartedKeys

\* C11: the worklog built for issue K sums exactly the chunks whose issueKey
\* is K, plus the null chunks if and only if K is the only key in
\* activeIssues; with two or more active issues no null chunk contributes to
\* any issue's worklog.
C11_BuilderSelectsChunks ==
    hasSession =>
       \A K \in BuilderKeys :
          LET chunks == session.workChunks
              own == {i \in 1..Len(chunks) : chunks[i].issueKey = K}
              nulls == {i \in 1..Len(chunks) : chunks[i].issueKey = Null}
              picked == IF ActiveKeys(session) = {K} THEN own \cup nulls ELSE own
              summed == SumSeq([i \in 1..Len(chunks) |->
                           IF i \in picked THEN ChunkSeconds(chunks[i]) ELSE 0])
              w == cmd_build_worklog(session, K).out
          IN  /\ w.chunks = {chunks[i].uid : i \in picked}
              /\ w.seconds = Min(summed, MAX_WORKLOG_SECONDS)
              /\ Cardinality(ActiveKeys(session)) >= 2 =>
                    \A i \in nulls : chunks[i].uid \notin w.chunks

\* with two active issues, one issue's worklog and the unattributed worklog
\* were queued from disjoint chunks
C11_Witness ==
    /\ hasSession
    /\ Cardinality(ActiveKeys(session)) >= 2
    /\ \E i, j \in 1..Len(session.pendingWorklogs) :
          /\ session.pendingWorklogs[i].issueKey \in ActiveKeys(session)
          /\ session.pendingWorklogs[j].issueKey = Null
          /\ session.pendingWorklogs[i].chunks # {}
          /\ session.pendingWorklogs[j].chunks # {}
          /\ session.pendingWorklogs[i].chunks
                 \cap session.pendingWorklogs[j].chunks = {}

\* C12: every pending worklog a periodic flush or a session-end appends,
\* attributed or unattributed, has seconds <= 14400, whatever the configured
\* timeRounding and accuracy and whatever the chunks.
C12_QueuedSecondsCapped ==
    [][ \A r \in DrainRuns \cup EndRuns :
          (hasSession /\ Commit(r))
          => \A i \in 1..Len(r.queued) :
                r.queued[i].seconds <= MAX_WORKLOG_SECONDS
      ]_vars

\* the clamped time of the chunks the builder is to sum for K, before the cap
PreCapTotal(K) ==
    SumSeq([i \in 1..Len(session.workChunks) |->
              IF \/ session.workChunks[i].issueKey = K
                 \/ (ActiveKeys(session) = {K} /\ session.workChunks[i].issueKey = Null)
              THEN Max(ChunkTime(session.workChunks[i]), 0)
              ELSE 0])

\* C13: the worklog builder's seconds is <= 14400, and its output carries
\* capped = true if and only if the sum of the clamped chunk durations before
\* capping exceeded 14400.
C13_BuilderCapLaw ==
    hasSession =>
       \A K \in BuilderKeys :
          LET w == cmd_build_worklog(session, K).out
          IN  /\ w.seconds <= MAX_WORKLOG_SECONDS
              /\ w.capped <=> PreCapTotal(K) > MAX_WORKLOG_SECONDS
              /\ ~w.capped => w.seconds = PreCapTotal(K)

\* an issue holds more than four hours of chunks and its worklog is capped
C13_Witness ==
    /\ hasSession
    /\ \E K \in ActiveKeys(session) :
          /\ PreCapTotal(K) > MAX_WORKLOG_SECONDS
          /\ cmd_build_worklog(session, K).out.capped
          /\ cmd_build_worklog(session, K).out.seconds = MAX_WORKLOG_SECONDS

\* the accuracy settings, and durations around the granularities in use
AccuracyLevels == 1..10

SecondsSamples == {1, 59, 60, 61, 119, 120, 121, 899, 900, 901, 1500, 1799,
                   1800, 1801, 2999, 3000, 3001, 3600, 14400, 15000}

\* durations the rounder is given in this state
SecondsHere ==
    SecondsSamples \cup {PreCapTotal(K) : K \in BuilderKeys}
                   \cup {_build_unattributed_worklog(session).seconds}

\* C14: for seconds > 0, a rounding increment r >= 1 and accuracy 1..10,
\* _round_seconds returns the least multiple of the granularity (in seconds)
\* that is >= seconds, hence a positive multiple never below one
\* granularity; the granularity is max(r div 15, 1) minutes for accuracy >= 8,
\* 2r minutes for accuracy <= 3, and r minutes otherwise.
C14_RoundsUpToGranularity ==
    (hasSession /\ cfg.timeRounding >= 1) =>
       \A a \in AccuracyLevels \cup {session.accuracy} :
          \A seconds \in {x \in SecondsHere : x > 0} :
             LET r == cfg.timeRounding
                 minutes == IF a >= 8 THEN (IF r \div 15 >= 1 THEN r \div 15 ELSE 1)
                            ELSE IF a <= 3 THEN 2 * r
                            ELSE r
                 g == minutes * 60
                 v == _round_seconds(seconds, r, a)
             IN  /\ v % g = 0
                 /\ v >= seconds
                 /\ v - g < seconds
                 /\ v >= g

\* at accuracy 9 a worklog was queued on the one-minute grid, off the
\* fifteen-minute one
C14_Witness ==
    /\ hasSession
    /\ session.accuracy >= 8
    /\ cfg.timeRounding = DefaultTimeRounding
    /\ \E i \in 1..Len(session.pendingWorklogs) :
          /\ session.pendingWorklogs[i].seconds > 0
          /\ session.pendingWorklogs[i].seconds % 60 = 0
          /\ session.pendingWorklogs[i].seconds % (DefaultTimeRounding * 60) # 0

\* C15: _round_seconds is total: for every integer seconds (zero and
\* negative included), every rounding increment >= 0 (0 included) and every
\* accuracy it returns a value without raising, and zero or negative seconds
\* yield 0.
C15_RoundSecondsTotal ==
    (hasSession /\ cfg.timeRounding >= 0) =>
       \A a \in AccuracyLevels \cup {session.accuracy} :
          \A seconds \in SecondsHere \cup {0, 0 - 1, 0 - 900} :
             LET v == _round_seconds(seconds, cfg.timeRounding, a)
             IN  /\ v # ZeroDivisionError
                 /\ seconds <= 0 => v = 0

LoopSession ==
    IF session.activityBuffer # <<>> THEN DrainChunks(session, cfg, now, nextUid)
    ELSE session

\* the active issues whose built worklog has seconds > 0, in order
IssuesWithTime ==
    LET withTime == SelectSeq(LoopSession.activeIssues,
                       LAMBDA e : cmd_build_worklog(LoopSession, e.key).out.seconds > 0)
    IN  [i \in 1..Len(withTime) |-> withTime[i].key]

\* the granularity in seconds, as the rounding rule states it
GranularitySeconds(r, a) ==
    60 * (IF a >= 8 THEN (IF r \div 15 >= 1 THEN r \div 15 ELSE 1)
          ELSE IF a <= 3 THEN 2 * r
          ELSE r)

\* run r queued exactly one attributed entry per issue with time, each a
\* positive multiple of the granularity
OneEntryPerIssueWithTime(r) ==
    LET got == SelectSeq(r.queued, LAMBDA e : e.issueKey # Null)
    IN  /\ [i \in 1..Len(got) |-> got[i].issueKey] = IssuesWithTime
        /\ \A i \in 1..Len(got) :
              /\ got[i].seconds > 0
              /\ got[i].seconds % GranularitySeconds(cfg.timeRounding, session.accuracy) = 0

\* C17: session-end, and likewise a due periodic flush, appends exactly one
\* attributed pending worklog for each active issue whose built worklog has
\* seconds > 0 and none for an issue whose built worklog has zero seconds;
\* each appended entry's seconds is a positive multiple of the rounding
\* granularity.
C17_OneEntryPerIssueWithTime ==
    [][ /\ \A r \in EndRuns :
              (hasSession /\ Commit(r)) => OneEntryPerIssueWithTime(r)
        /\ \A r \in DrainRuns :
              (hasSession /\ Commit(r) /\ r.due) => OneEntryPerIssueWithTime(r)
      ]_vars

\* summaries auto-create may be handed: prompts, commit messages, and texts
\* with other overlaps and signal counts
Summaries ==
    Prompts \cup CommitMsgs \cup
    { <<"review", "login">>, <<"fix", "login", "crash">>, <<"add", "cache">>,
      <<"please", "fix", "login", "crash", "today">>, <<"fix", "crash">> }

\* whether s holds an active issue whose stored summary overlaps the
\* candidate by 60% or more (Jaccard, on word sets)
Overlapping(s, candidate) ==
    {i \in 1..Len(s.activeIssues) :
        /\ Range(s.activeIssues[i].summary) # {}
        /\ 5 * Cardinality(Range(candidate) \cap Range(s.activeIssues[i].summary))
              >= 3 * Cardinality(Range(candidate) \cup Range(s.activeIssues[i].summary))}

\* every gate of auto-create before the request is passed
GatesPassed(s, c, summary) ==
    /\ _resolve_autonomy(s, c) # "C"
    /\ c.autoCreate
    /\ c.hasCreds
    /\ extract_summary_from_prompt(summary) # <<>>
    /\ Overlapping(s, extract_summary_from_prompt(summary)) = {}
    /\ classify_issue(extract_summary_from_prompt(summary)).confidence >= 65
    /\ c.projectKey # ""

\* C18: when auto-create passes every gate and the tracker returns key K, K
\* is an active issue, currentIssue = K, no null chunk remains (all were
\* claimed by K and their time added to K's totalSeconds), the parent sent to
\* the tracker is lastParentKey if set, else the previous currentIssue, else
\* none, and lastParentKey is set to that parent whenever one was used.
C18_AutoCreateSuccess ==
    (hasSession /\ NextKey(tracker.created) # Null) =>
       \A summary \in Summaries :
          LET K == NextKey(tracker.created)
              r == _attempt_auto_create(session, cfg, summary, K, now)
              parent == IF session.lastParentKey # Null THEN session.lastParentKey
                        ELSE IF session.currentIssue # Null THEN session.currentIssue
                        ELSE Null
              before == session.workChunks
              after == r.session.workChunks
              claimed == SumSeq([i \in 1..Len(before) |->
                            IF before[i].issueKey = Null
                            THEN Max(ChunkTime(before[i]), 0) ELSE 0])
          IN  GatesPassed(session, cfg, summary) =>
                 /\ r.requested
                 /\ r.result.ok /\ ~r.result.duplicate /\ r.result.key = K
                 /\ K \in ActiveKeys(r.session)
                 /\ r.session.currentIssue = K
                 /\ Len(after) = Len(before)
                 /\ \A i \in 1..Len(after) :
                       after[i] = IF before[i].issueKey = Null
                                  THEN [before[i] EXCEPT !.issueKey = K]
                                  ELSE before[i]
                 /\ IssueOf(r.session, K).totalSeconds = claimed
                 /\ r.result.parent = parent
                 /\ r.session.lastParentKey =
                       IF parent # Null THEN parent ELSE session.lastParentKey

\* an issue was created while lastParentKey was set and another issue was
\* current: it is current now, holds the time of the chunk recorded without
\* an issue, and lastParentKey is unchanged
C18_Witness ==
    /\ hasSession
    /\ tracker.created > 0
    /\ session.currentIssue = NextKey(0)
    /\ session.lastParentKey = "X-0"
    /\ "X-1" \in ActiveKeys(session)
    /\ NextKey(0) \in ActiveKeys(session)
    /\ IssueOf(session, NextKey(0)).totalSeconds > 0
    /\ \E i \in 1..Len(session.workChunks) :
          /\ session.workChunks[i].activities[1].issueKey = Null
          /\ session.workChunks[i].issueKey = NextKey(0)

\* the gates auto-create checks before it looks for a duplicate
EarlyGatesPassed(s, c, summary) ==
    /\ _resolve_autonomy(s, c) # "C"
    /\ c.autoCreate
    /\ c.hasCreds
    /\ extract_summary_from_prompt(summary) # <<>>

\* the tracker's answers to a create request: the next key, or none
Answers == {NextKey(tracker.created), Null}

\* C19: whenever auto-create yields no result (autonomy maps to C,
\* autoCreate is off, credentials are missing, the cleaned summary is empty,
\* confidence < 0.65, no project key is configured, or the tracker call fails
\* or returns no key) it leaves the session unchanged (activeIssues,
\* currentIssue, lastParentKey, workChunks); for every gate that precedes the
\* HTTP call, no request is sent to the tracker.
C19_NoResultLeavesSession ==
    hasSession =>
       \A summary \in Summaries, http \in Answers :
          LET r == _attempt_auto_create(session, cfg, summary, http, now)
              clean == extract_summary_from_prompt(summary)
              gateClosed ==
                 \/ ~EarlyGatesPassed(session, cfg, summary)
                 \/ /\ Overlapping(session, clean) = {}
                    /\ \/ classify_issue(clean).confidence < 65
                       \/ cfg.projectKey = ""
              trackerFailed == GatesPassed(session, cfg, summary) /\ http = Null
          IN  /\ gateClosed => ~r.result.ok /\ ~r.requested
              /\ trackerFailed => ~r.result.ok /\ r.requested
              /\ ~r.result.ok =>
                    /\ gateClosed \/ trackerFailed
                    /\ r.result = NoResult
                    /\ r.session.activeIssues = session.activeIssues
                    /\ r.session.currentIssue = session.currentIssue
                    /\ r.session.lastParentKey = session.lastParentKey
                    /\ r.session.workChunks = session.workChunks
                    /\ r.session = session
              /\ r.requested => GatesPassed(session, cfg, summary)

\* under autonomy A with autoCreate on, hours of work without an issue were
\* queued as unattributed: auto-create gave no result, and the session has
\* no issue, no current issue and no parent
C19_Witness ==
    /\ hasSession
    /\ _resolve_autonomy(session, cfg) = "A"
    /\ cfg.autoCreate
    /\ tracker.created = 0
    /\ session.activeIssues = <<>>
    /\ session.currentIssue = Null
    /\ session.lastParentKey = Null
    /\ \E i \in 1..Len(session.pendingWorklogs) :
          IsUnattributed(session.pendingWorklogs[i])

ClassifierInputs ==
    Summaries \cup {session.activeIssues[i].summary : i \in 1..Len(session.activeIssues)}
              \cup { <<"the", "thing">>, <<"fix", "add", "login">>,
                     <<"fix", "add", "create", "cache">>,
                     <<"fix", "bug", "add", "create", "build">>,
                     <<"fix", "bug", "crash", "error">>,
                     <<"add", "create", "build", "setup">> }

\* the number of words of a text that are on a signal list
Score(signals, summary) == Cardinality({w \in signals : w \in Range(summary)})

C27_SignalsOfBothLists ==
    hasSession =>
       \A summary \in ClassifierInputs :
          \A w \in Range(summary) :
             w \in BUG_SIGNALS \cup TASK_SIGNALS
                => w \in classify_issue(summary).signals

\* the chunks the chunking part of drain-buffer appends in this state
NewChunks ==
    LET chunked == DrainChunks(session, cfg, now, nextUid)
    IN  SubSeq(chunked.workChunks, Len(session.workChunks) + 1,
               Len(chunked.workChunks))

\* the idle threshold in seconds, by accuracy band
IdleThreshold ==
    60 * (IF cfg.accuracy >= 8
          THEN (IF cfg.idleThreshold \div 3 >= 5 THEN cfg.idleThreshold \div 3 ELSE 5)
          ELSE IF cfg.accuracy <= 3 THEN 2 * cfg.idleThreshold
          ELSE cfg.idleThreshold)

\* the directory clusters of the activities of a group that name a file
ClusterSet(group) ==
    {_get_dir_cluster(group[i].file) : i \in {j \in 1..Len(group) : group[j].file # <<>>}}

\* the split rule: b follows a, and `group` is the current group (it ends with a)
MustSplit(a, b, group) ==
    \/ b.timestamp - a.timestamp > IdleThreshold
    \/ a.issueKey # b.issueKey
    \/ /\ _get_dir_cluster(b.file) # <<>>
       /\ _get_dir_cluster(b.file) \notin ClusterSet(group)
       /\ Len(group) >= 2

\* C28: during drain, two consecutive timestamp-sorted activities a, b are
\* placed in different chunks if and only if gap(a,b) > idle threshold
\* (strictly), or their issueKeys differ, or b has a non-empty directory
\* cluster that is absent from the cluster set of the current group while
\* that group already holds at least 2 activities; the idle threshold is
\* max(base div 3, 5) minutes for accuracy >= 8, 2*base minutes for accuracy
\* <= 3, and base minutes otherwise.
C28_SplitRule ==
    (hasSession /\ session.activityBuffer # <<>>) =>
       /\ _get_idle_threshold_seconds(cfg) = IdleThreshold
       /\ \A k \in 1..Len(NewChunks) :
             LET acts == NewChunks[k].activities
             IN  /\ \A j \in 1..(Len(acts) - 1) :
                       ~MustSplit(acts[j], acts[j + 1], SubSeq(acts, 1, j))
                 /\ k < Len(NewChunks) =>
                       MustSplit(acts[Len(acts)], NewChunks[k + 1].activities[1], acts)

\* the activities of a sequence of chunks, chunk after chunk
RECURSIVE Flatten(_)
Flatten(chunks) ==
    IF chunks = <<>> THEN <<>>
    ELSE Head(chunks).activities \o Flatten(Tail(chunks))

\* seq holds the elements of the buffer, each as often as the buffer does
SameActivities(seq, buffer) ==
    /\ Len(seq) = Len(buffer)
    /\ \A a \in Range(buffer) :
          Cardinality({i \in 1..Len(seq) : seq[i] = a})
             = Cardinality({i \in 1..Len(buffer) : buffer[i] = a})

\* C29: after drain-buffer on an existing session, activityBuffer is empty
\* and every activity that was in the buffer appears in exactly one newly
\* appended chunk; the new chunks are consecutive runs of the
\* timestamp-sorted buffer, and all activities inside one new chunk carry
\* that chunk's issueKey.
C29_ChunksPartitionBuffer ==
    hasSession =>
       /\ \A r \in DrainRuns : r.session.activityBuffer = <<>>
       /\ session.activityBuffer # <<>> =>
             LET chunked == DrainChunks(session, cfg, now, nextUid)
                 all == Flatten(NewChunks)
             IN  /\ chunked.activityBuffer = <<>>
                 /\ SubSeq(chunked.workChunks, 1, Len(session.workChunks))
                       = session.workChunks
                 /\ SameActivities(all, session.activityBuffer)
                 /\ \A i \in 1..(Len(all) - 1) :
                       all[i].timestamp <= all[i + 1].timestamp
                 /\ \A k \in 1..Len(NewChunks) :
                       /\ NewChunks[k].activities # <<>>
                       /\ \A j \in 1..Len(NewChunks[k].activities) :
                             NewChunks[k].activities[j].issueKey
                                = NewChunks[k].issueKey

\* a buffer that arrived out of order was drained into chunks in timestamp
\* order, one of them holding several activities, and the buffer is empty
C29_Witness ==
    /\ hasSession
    /\ session.activityBuffer = <<>>
    /\ \E i, j \in 1..Len(session.workChunks) :
          /\ i < j
          /\ session.workChunks[i].uid > 0 /\ session.workChunks[j].uid > 0
          /\ session.workChunks[i].issueKey # session.workChunks[j].issueKey
          /\ Len(session.workChunks[i].activities) >= 2
          /\ session.workChunks[i].endTime <= session.workChunks[j].startTime

\* C30: on every drain-buffer invocation on an existing session, including
\* with an empty buffer, the flush scheduler is evaluated once, after
\* chunking; when now - lastWorklogTime < worklogInterval*60 it changes
\* nothing (pendingWorklogs, workChunks and lastWorklogTime stay as chunking
\* left them) and posts nothing.
C30_FlushNoOpUnderInterval ==
    hasSession =>
       \A r \in DrainRuns :
          LET chunked == IF session.activityBuffer = <<>> THEN session
                         ELSE DrainChunks(session, cfg, now, nextUid)
          IN  /\ r.due <=> now - session.lastWorklogTime >= cfg.worklogInterval * 60
              /\ now - session.lastWorklogTime < cfg.worklogInterval * 60 =>
                    /\ r.session = chunked
                    /\ r.session.pendingWorklogs = session.pendingWorklogs
                    /\ r.session.lastWorklogTime = session.lastWorklogTime
                    /\ r.sent = <<>>
                    /\ r.queued = <<>>
                    /\ ~r.requested /\ r.created = 0

\* a drain ran before the interval had passed: its chunks are there with
\* work on an active issue, nothing is queued and lastWorklogTime is as the
\* session start left it
C30_Witness ==
    /\ hasSession
    /\ now - session.lastWorklogTime < cfg.worklogInterval * 60
    /\ session.activityBuffer = <<>>
    /\ session.pendingWorklogs = <<>>
    /\ tracker.worklogs = <<>>
    /\ \E i \in 1..Len(session.workChunks) :
          /\ session.workChunks[i].uid > 0
          /\ session.workChunks[i].issueKey \in ActiveKeys(session)

\* the step is a session-end that ran to its end: it left this snapshot
EndedWith(r) ==
    /\ hasSession
    /\ CommitSession(r)
    /\ archive' = WriteArchive(archive, r.archived)
    /\ ~r.raised

\* C24: each session-end writes an archive snapshot, keyed by the session
\* identifier, that still contains the chunks that session-end is about to
\* clear, and no later operation (including a later session-end on the same
\* live session) modifies or overwrites an archive already written.
C24_ArchiveWrittenOnceAndKept ==
    [][ /\ \A r \in EndRuns :
              EndedWith(r) =>
                 /\ session.sessionId \in DOMAIN archive'
                 /\ \A i \in 1..Len(r.archived[1].workChunks) :
                       LET ch == r.archived[1].workChunks[i]
                       IN  ChunkWithUid(session', ch.uid) = <<>>
                              => ChunkWithUid(archive'[session.sessionId], ch.uid) = <<ch>>
        /\ \A id \in DOMAIN archive :
              id \in DOMAIN archive' /\ archive'[id] = archive[id]
      ]_vars


\* an invocation that has saved: its save_session ran to the end
Saved(p) == procs[p].pc = "done" /\ procs[p].data # <<>>

\* an invocation whose load_session has returned
HasRead(p) == procs[p].pc \in {"loaded", "dump", "replace", "done"}

\* C22: a session read that overlaps any number of session writes returns a
\* complete document that the file held at the read's existence check or that
\* was saved after it; it returns the empty fallback only when no valid
\* session file existed at that check, and never part of a document.
C22_ReadsSeeCompleteSaves ==
    \A p \in Procs :
        HasRead(p) =>
            IF procs[p].read = <<>>
            THEN ~procs[p].validAtCheck
            ELSE \E i \in 1..Len(saves) :
                    /\ i >= procs[p].atCheck
                    /\ saves[i].doc = procs[p].read[1]

\* a read that began on one document and returned the next one, which an
\* invocation that was writing meanwhile put in place before the file was
\* opened
C22_Witness ==
    \E p \in Procs, q \in Procs :
        /\ HasRead(p) /\ procs[p].read # <<>>
        /\ procs[p].atCheck >= 1
        /\ procs[p].atCheck < Len(saves)
        /\ saves[procs[p].atCheck + 1].by = q
        /\ procs[p].read[1] = saves[procs[p].atCheck + 1].doc
        /\ procs[p].read[1] # saves[procs[p].atCheck].doc
        /\ q # p
        /\ procs[q].read # <<>>
        /\ procs[q].read[1] = saves[procs[p].atCheck].doc

Quiescent == \A p \in Procs : procs[p].pc \in {"idle", "done"}

\* C23: once the overlapping invocations have ended, the session file holds
\* exactly the complete state written by the invocation that saved last;
\* whatever another invocation appended is in it only if the last one had
\* read it.
C23_LastWriterWins ==
    (Quiescent /\ \E p \in Procs : Saved(p)) =>
        \E q \in Procs :
            /\ Saved(q)
            /\ saves[Len(saves)].by = q
            /\ disk.session = FileOf(procs[q].data[1])
            /\ hasSession
            /\ session = procs[q].data[1]

\* two log-activity calls read the same session, both saved, and the file
\* holds the second one's state without the first one's activity
C23_Witness ==
    \E p \in Procs, q \in Procs :
        /\ p # q
        /\ Quiescent
        /\ procs[p].cmd = "log-activity" /\ procs[q].cmd = "log-activity"
        /\ Saved(p) /\ Saved(q)
        /\ procs[p].read = procs[q].read
        /\ procs[p].data # procs[q].data
        /\ session = procs[q].data[1]
        /\ Len(session.activityBuffer)
             = Len(procs[p].read[1].activityBuffer) + 1


\* C25: whatever the state of the session file and of the config file
\* (absent, malformed, valid), session-start, log-activity, drain-buffer,
\* session-end and post-worklogs return without raising.
C25_NoCommandRaises ==
    host.cmd \in {"session-start", "log-activity", "drain-buffer",
                  "session-end", "post-worklogs"} => ~host.raised

\* C21: a tracker call whose first answer is 429 is tried again, and
\* succeeds when the second answer is a success.
C21_RetryAfter429 ==
    (/\ host.cmd = "add-worklog"
     /\ Len(host.script) >= 2
     /\ host.script[1] = 429
     /\ host.script[2] \in {200, 201})
        => (host.ok /\ host.attempts = 2)

\* groups the detector is handed: edits under two directory trees, of a
\* top-level file, commands with no file, alone and three at a time
DetectorGroups ==
    LET edit(file) == SeedBuffered(T0, <<"X-1", 0, file>>)
        api == edit(<<"src", "api", "a.ts">>)
        db == edit(<<"lib", "db", "b.ts">>)
        top == edit(<<"README.md">>)
        bash == edit(<<>>)
    IN  { <<api>>, <<db>>, <<top>>, <<bash>>, <<api, db>>, <<bash, db>>,
          <<api, api, api>>, <<db, db, db>>, <<top, top, top>>,
          <<api, db, top>>, <<bash, bash, bash>> }

\* the group has an activity whose directory cluster is not empty
Clustered(group) == \E i \in 1..Len(DirsOf(group)) : DirsOf(group)[i] # <<>>

\* C31: the detector flags a switch only if the two top-2 cluster sets are
\* disjoint and both groups have an activity with a non-empty directory
\* cluster; at accuracy 3 or less only if both groups also have at least 3
\* activities; a group with no file-bearing activity never yields a switch.
C31_SwitchOnlyBetweenClusteredGroups ==
    hasSession =>
       \A prev \in DetectorGroups, curr \in DetectorGroups, accuracy \in AccuracyLevels :
          /\ _detect_context_switch(prev, curr, accuracy) =>
                /\ MostCommon2(DirsOf(prev)) \cap MostCommon2(DirsOf(curr)) = {}
                /\ Clustered(prev) /\ Clustered(curr)
                /\ accuracy <= 3 => (Len(prev) >= 3 /\ Len(curr) >= 3)
          /\ (DirsOf(prev) = <<>> \/ DirsOf(curr) = <<>>) =>
                ~_detect_context_switch(prev, curr, accuracy)

\* stale as the claim words it: older than 24 h, no time of its own, no chunk
StaleIssue(s, e, t) ==
    /\ t - e.startTime > STALE_ISSUE_SECONDS
    /\ e.totalSeconds = 0
    /\ \A i \in 1..Len(s.workChunks) : s.workChunks[i].issueKey # e.key

\* C32: a session-start that resumes removes an Active Issue if and only if
\* it is older than 24 h, has totalSeconds 0 and no chunk carries its key;
\* currentIssue becomes null when it was removed; every other Active Issue
\* is kept unchanged, in place.
C32_ResumePrunesExactlyStale ==
    (hasSession /\ cfg.enabled /\ session.activeIssues # <<>>) =>
        \A r \in StartRuns :
            /\ r.session.activeIssues =
                   SelectSeq(session.activeIssues,
                             LAMBDA e : ~StaleIssue(session, e, now))
            /\ r.session.currentIssue =
                   IF \E e \in Range(session.activeIssues) :
                         e.key = session.currentIssue /\ StaleIssue(session, e, now)
                   THEN Null ELSE session.currentIssue

\* after a resume: the current issue was stale and is gone, currentIssue is
\* null; the other issue is as old and without time of its own, but a chunk
\* carries its key, and it is still there
C32_Witness ==
    /\ hasSession
    /\ Len(session.activeIssues) = 1
    /\ session.activeIssues[1].key = "X-2"
    /\ now - session.activeIssues[1].startTime > STALE_ISSUE_SECONDS
    /\ session.activeIssues[1].totalSeconds = 0
    /\ \E i \in 1..Len(session.workChunks) : session.workChunks[i].issueKey = "X-2"
    /\ session.currentIssue = Null
    /\ session.pendingWorklogs = <<>>
    /\ tracker.created = 0

\* C33: while the session carries disabled = true, a log-activity call
\* appends nothing to the activity buffer, whatever the tool event.
C33_DisabledSessionLogsNothing ==
    [][ (/\ hasSession
         /\ session.disabled
         /\ host'.cmd = "log-activity")
        => session'.activityBuffer = session.activityBuffer ]_vars

\* C34: after session-end on an existing session, also one with buffered
\* activities, the persisted activePlanning is null, and no planning
\* interval is logged to the tracker twice.
C34_SessionEndResetsPlanning ==
    /\ hasSession =>
          \A r \in EndRuns : ~r.raised => r.session.activePlanning = <<>>
    /\ \A i \in 1..Len(tracker.planning), j \in 1..Len(tracker.planning) :
          i # j => tracker.planning[i].startTime # tracker.planning[j].startTime

StartEvent(ev) ==
    ev.tool = "EnterPlanMode" \/ (ev.tool = "Skill" /\ _is_planning_skill(ev.skill))

EndEvent(ev) == ev.tool = "ExitPlanMode" \/ ev.tool \in PLANNING_IMPL_TOOLS

Elapsed == now - session.activePlanning[1].startTime

\* C35: a planning start event while planning is active leaves
\* activePlanning unchanged; an end event (ExitPlanMode or an implementation
\* tool) while active sets it to null and logs the elapsed time exactly once
\* if it is at least 60 seconds and not at all if it is shorter; an end
\* event while no planning is active changes and logs nothing.
C35_PlanningEvents ==
    hasSession =>
       \A ev \in PlanningEvents :
          LET r == cmd_log_activity(session, cfg, ev, now)
              active == session.activePlanning # <<>>
          IN  /\ (StartEvent(ev) /\ active) =>
                    (r.session.activePlanning = session.activePlanning
                       /\ r.planned = <<>>)
              /\ (EndEvent(ev) /\ active) =>
                    /\ r.session.activePlanning = <<>>
                    /\ Elapsed >= 60 => (Len(r.planned) = 1
                                           /\ r.planned[1].seconds = Elapsed)
                    /\ Elapsed < 60 => r.planned = <<>>
              /\ (EndEvent(ev) /\ ~active) =>
                    (r.session.activePlanning = <<>> /\ r.planned = <<>>)

\* the issue a planning interval is logged to
PlanningTarget ==
    IF session.activePlanning[1].issueKey # Null
    THEN session.activePlanning[1].issueKey
    ELSE IF session.currentIssue # Null THEN session.currentIssue
    ELSE session.lastParentKey

\* C35 as amended: an implementation tool on a file under .claude/ is
\* skipped and ends nothing; the elapsed time of an ended interval is sent
\* once if it is at least 60 seconds and there are credentials and an issue
\* to log to, and not at all otherwise.
C35_PlanningEventsLaw ==
    hasSession =>
       \A ev \in PlanningEvents :
          LET r == cmd_log_activity(session, cfg, ev, now)
              active == session.activePlanning # <<>>
              skipped == ev.file # <<>> /\ IsInternalPath(ev.file)
          IN  /\ (StartEvent(ev) /\ active) =>
                    (r.session.activePlanning = session.activePlanning
                       /\ r.planned = <<>>)
              /\ (EndEvent(ev) /\ active /\ skipped) =>
                    (r.session = session /\ r.planned = <<>>)
              /\ (EndEvent(ev) /\ active /\ ~skipped) =>
                    /\ r.session.activePlanning = <<>>
                    /\ (Elapsed >= 60 /\ cfg.hasCreds /\ PlanningTarget # Null) =>
                          /\ Len(r.planned) = 1
                          /\ r.planned[1].seconds = Elapsed
                          /\ r.planned[1].issueKey = PlanningTarget
                    /\ (Elapsed < 60 \/ ~cfg.hasCreds \/ PlanningTarget = Null) =>
                          r.planned = <<>>
              /\ (EndEvent(ev) /\ ~active) =>
                    (r.session.activePlanning = <<>> /\ r.planned = <<>>)

\* planning ended by ExitPlanMode after exactly 60 seconds and was logged
\* once; ended intervals leave activePlanning null
C35_Witness ==
    /\ hasSession
    /\ session.activePlanning = <<>>
    /\ Len(tracker.planning) = 1
    /\ tracker.planning[1].seconds = 60
    /\ session.activityBuffer # <<>>
    /\ session.activityBuffer[Len(session.activityBuffer)].tool = "ExitPlanMode"
    /\ session.activityBuffer[Len(session.activityBuffer)].timestamp
          = tracker.planning[1].startTime + 60

\* ------------------------------------------------- C36, C37: time kept
\* the chunks a flush or a session-end works on: those of the session and
\* those the operation's own drain makes from the buffer
ChunksBefore ==
    IF session.activityBuffer = <<>> THEN session.workChunks
    ELSE DrainChunks(session, cfg, now, nextUid).workChunks

\* the operations that saved their result, in the current state
FlushAndEndRuns == {r \in DrainRuns \cup EndRuns : ~r.raised}

UidsLeft(r) == {r.session.workChunks[i].uid : i \in 1..Len(r.session.workChunks)}

CountedIn(r, ch) == {i \in 1..Len(r.queued) : ch.uid \in r.queued[i].chunks}

\* C36: whenever a periodic flush or a session-end removes a chunk with
\* positive duration from workChunks, that chunk's duration was counted in
\* the total of a pending worklog appended by the same operation.
C36_RemovedChunksWereQueued ==
    hasSession =>
        \A r \in FlushAndEndRuns :
            \A i \in 1..Len(ChunksBefore) :
                (ChunkSeconds(ChunksBefore[i]) > 0
                    /\ ChunksBefore[i].uid \notin UidsLeft(r))
                => CountedIn(r, ChunksBefore[i]) # {}

\* C37: within one flush or session-end each chunk's duration is counted in
\* at most one appended pending worklog; a null chunk is not counted both in
\* the sole active issue's worklog and in the unattributed worklog.
C37_ChunkCountedOnce ==
    hasSession =>
        \A r \in FlushAndEndRuns :
            \A i \in 1..Len(ChunksBefore) :
                ChunkSeconds(ChunksBefore[i]) > 0
                => Cardinality(CountedIn(r, ChunksBefore[i])) <= 1

\* ---------------------------------------------- C38: session-start keeps
\* statuses of the entries that still wait for the user or for the tracker
OpenStatuses == {"pending", "approved", "unattributed"}

\* C38: session-start never removes from the live session a pending worklog
\* whose status is pending, approved or unattributed, nor a buffered
\* activity that has not been drained, whether or not the existing session
\* has any active issue.
C38_SessionStartKeepsQueuedWork ==
    hasSession =>
        \A r \in StartRuns :
            /\ \A i \in 1..Len(session.pendingWorklogs) :
                  session.pendingWorklogs[i].status \in OpenStatuses
                  => \E j \in 1..Len(r.session.pendingWorklogs) :
                        r.session.pendingWorklogs[j] = session.pendingWorklogs[i]
            /\ \A i \in 1..Len(session.activityBuffer) :
                  \E j \in 1..Len(r.session.activityBuffer) :
                      r.session.activityBuffer[j] = session.activityBuffer[i]

\* ------------------------------------------- C39: chunks and their issues
\* C39: after any sequence of session-start, log-activity, drain, flush,
\* auto-create and session-end operations starting from a fresh session,
\* every work chunk's issueKey is either null or a key of activeIssues.
C39_ChunksBelongToActiveIssues ==
    hasSession =>
        \A i \in 1..Len(session.workChunks) :
            session.workChunks[i].issueKey \in {Null} \cup ActiveKeys(session)

\* ------------------------------------------ C40: overlapping post runs
\* how many requests the tracker got for the entry uid
TimesSent(uid) ==
    Cardinality({i \in 1..Len(tracker.worklogs) : tracker.worklogs[i] = uid})

\* C40 as stated: when two post-worklogs runs overlap, each approved pending
\* worklog is still sent to the tracker at most once.
C40_SentAtMostOnce ==
    \A i \in 1..Len(tracker.worklogs) : TimesSent(tracker.worklogs[i]) <= 1

\* run q loaded the session before run p saved it
LoadedBeforeSaveOf(q, p) ==
    \A k \in 1..procs[q].atLoad : saves[k].by # p

\* C40: when post-worklogs runs overlap, each run sends an approved pending
\* worklog at most once, the tracker gets no request that no run made, and
\* an entry is sent by two runs only if each of them loaded the session
\* before the other saved it.
C40_SentOncePerRun ==
    /\ \A p \in Procs :
          \A i, j \in 1..Len(procs[p].sent) :
              procs[p].sent[i] = procs[p].sent[j] => i = j
    /\ \A i \in 1..Len(tracker.worklogs) :
          TimesSent(tracker.worklogs[i]) =
              Cardinality({p \in Procs : tracker.worklogs[i] \in Range(procs[p].sent)})
    /\ \A p \in Procs :
          \A q \in Procs \ {p} :
              Range(procs[p].sent) \cap Range(procs[q].sent) # {}
              => LoadedBeforeSaveOf(q, p)

\* two runs have finished and both sent the same entry: each had loaded
\* the session before the other saved it
C40_Witness ==
    \E p \in Procs : \E q \in Procs \ {p} :
        /\ procs[p].pc = "done" /\ procs[q].pc = "done"
        /\ procs[p].sent # <<>>
        /\ procs[q].sent = procs[p].sent
        /\ \E k \in 1..Len(saves) : saves[k].by = p
        /\ \E k \in 1..Len(saves) : saves[k].by = q
        /\ TimesSent(procs[p].sent[1]) = 2

====
